---- MODULE Spec2Model ----
(***************************************************************************)
(* Relationship lifecycle of the Relation app.                             *)
(*                                                                         *)
(*   Spec      the local ledger of src/src/App.tsx: the request list, the  *)
(*             relationship list and the viewer's score, driven by the     *)
(*             handlers the component hands to its children.               *)
(*   SpecSql   the v2 database schema: relationship_requests, relationships *)
(*             and users, with the function accept_relationship_request.   *)
(*   SpecConn  the persistence functions of src/src/lib/supabase.ts over   *)
(*             the connections / connection_requests tables and their      *)
(*             row-level policies.                                         *)
(*   SpecView  the graph view of App.tsx: expanding and collapsing a peer   *)
(*             and the reveal timers.                                      *)
(*   SpecModal AcceptRequestModal and its wiring in App.tsx.               *)
(*   SpecStored the app after loading stored relationships and requests:   *)
(*             network depth, insights and the default-view snapshot.      *)
(*   SpecForm  the relationship form of AddRelationshipModal.              *)
(*   SpecRemote the signed-in App of unnamed/part_003 over supabase.ts.    *)
(*   SpecFilter the search box and the show-hidden toggle of GraphControls *)
(*             over a stored list.                                         *)
(*   SpecStartup the first commits of App: the load effect and the save    *)
(*             effect over what localStorage holds.                        *)
(***************************************************************************)
EXTENDS Integers, Sequences, FiniteSets, TLC

(***************************************************************************)
(* Bounds                                                                  *)
(***************************************************************************)
\* number of requests the viewer's session ever creates
MaxRequests == 2
\* number of identity uuids crypto.randomUUID() can hand out: the viewer's
\* and those of the counterparts
MaxUsers == 2

\* number of profiles / users rows in the database
MaxDbUsers == 3
\* number of rows the database ever inserts into one request table
MaxDbRequests == 1
\* number of rows ever inserted into connections
MaxDbConnections == 2
\* cap on contribution_score in the database
MaxScore == 3

UserIds == 1..MaxUsers
DbUsers == 1..MaxDbUsers
DbRequestIds == 1..MaxDbRequests
DbConnectionIds == 1..MaxDbConnections
\* to_user_id: null
NoUser == 0
\* selectedConnection: null
NoRelationship == 0
\* useState(100) of visibleConnectionCount
InitialVisibleCount == 100
\* number of reveal timers the model keeps at a time
MaxSchedules == 2
RequestIds == 1..MaxRequests
\* number of relationships localStorage holds when the app loads
MaxStored == 5
\* number of counterpart identities the stored relationships name
MaxPeers == 3
\* uuids of the counterparts of stored relationships; the viewer's is 1
PeerIds == 2..(MaxPeers + 1)
\* number of relationships localStorage holds when the filters are examined
MaxListed == 2

\* values of the relationship_type input
RelTypes == {"Friend", "Coworker"}
\* values of the to_name input of the add form
Names == {"Emma Wilson"}
\* names simulateIncomingRequest draws from (App.tsx:212)
SimNames == {"Alex Chen"}

VARIABLES
  currentUser,        \* App.tsx:96   the viewer: id and contribution_score
  relationships,      \* App.tsx:97   list of verified relationships
  requests,           \* App.tsx:98   list of relationship requests
  uuids,              \* identity ids crypto.randomUUID() has returned
  nextRequestId,      \* request ids handed out so far, plus one
  nextRelationshipId, \* relationship ids handed out so far, plus one
  expandedFriendId,       \* App.tsx:111  the expanded peer, or NoUser
  isTransitioningBack,    \* App.tsx:112
  visibleConnectionCount, \* App.tsx:113  the reveal budget
  selectedConnection,     \* App.tsx:102  id of the relationship in the panel
  schedules,              \* timers of the stagger effect (App.tsx:161-169)
  transitionTimers,       \* pending 300 ms timers (App.tsx:249, 274, 659)
  mounted,                \* the App component is mounted
  acceptingRequest,       \* App.tsx:104  the request in the accept modal
  formRelationshipType,   \* AcceptRequestModal's relationshipType state
  preExpansion,           \* history: the snapshot shown when a peer was expanded
  isAddModalOpen,         \* App.tsx:100  the add modal is shown
  addModalError,          \* AddRelationshipModal's error state, "" for null
  filters,                \* App.tsx:105  searchQuery and showHidden
  loading,                \* App.tsx:99   the load effect has not finished
  localStorage,           \* the values under the STORAGE_KEYS that are stored
  effects,                \* the effect of App that runs next, "idle" if none
  db_users,                  \* users.contribution_score, by users.id
  db_relationship_requests,  \* rows of relationship_requests
  db_relationships,          \* rows of relationships
  db_connection_requests,    \* rows of connection_requests
  db_connections,            \* rows of connections
  db_profiles,               \* profiles.name, by profiles.id
  db_nextRequestId,          \* gen_random_uuid() for request rows
  db_nextConnectionId        \* gen_random_uuid() for connections rows

appVars == <<currentUser, relationships, requests, uuids, nextRequestId,
             nextRelationshipId>>
sqlVars == <<db_users, db_relationship_requests, db_relationships>>
connVars == <<db_connection_requests, db_connections, db_nextConnectionId,
              db_profiles>>
dbVars == <<sqlVars, connVars, db_nextRequestId>>
navVars == <<expandedFriendId, isTransitioningBack, selectedConnection,
             transitionTimers, mounted>>
effectVars == <<visibleConnectionCount, schedules>>
modalVars == <<acceptingRequest, formRelationshipType>>
addModalVars == <<isAddModalOpen, addModalError>>
shellVars == <<filters, loading, localStorage, effects>>
clientVars == <<appVars, navVars, effectVars, modalVars, addModalVars, shellVars,
                preExpansion>>
nonModalVars == <<appVars, navVars, effectVars, addModalVars, preExpansion,
                  dbVars, shellVars>>
vars == <<clientVars, dbVars>>

(***************************************************************************)
(* Helpers over the lists                                                  *)
(***************************************************************************)
Range(s) == {s[i] : i \in 1..Len(s)}

\* requests.find(r => r.id === requestId): the set holding the first match,
\* empty when there is none
FindRequest(reqs, requestId) ==
  LET idx == {i \in 1..Len(reqs) : reqs[i].id = requestId}
  IN IF idx = {} THEN {}
     ELSE {reqs[CHOOSE i \in idx : \A j \in idx : i <= j]}

(***************************************************************************)
(* Init: first load with empty storage, createDemoUser() has run           *)
(***************************************************************************)
\* the database before any request: every table empty, every score 0
DbEmpty ==
  /\ db_users = [u \in DbUsers |-> 0]
  /\ db_relationship_requests = {}
  /\ db_relationships = {}
  /\ db_connection_requests = {}
  /\ db_connections = {}
  /\ db_profiles = [u \in DbUsers |-> "You"]
  /\ db_nextRequestId = 1
  /\ db_nextConnectionId = 1

\* what the save effect writes under the three STORAGE_KEYS
Saved(user, rels, reqs) ==
  [USER |-> user, RELATIONSHIPS |-> rels, REQUESTS |-> reqs]

\* const [filters, setFilters] = useState({ searchQuery: '', showHidden: false, ... })
NoFilters == [searchQuery |-> <<>>, showHidden |-> FALSE]

\* the shell of the app once the load effect and the save effect that
\* follows it have run
Loaded ==
  /\ filters = NoFilters
  /\ loading = FALSE
  /\ localStorage = Saved(currentUser, relationships, requests)
  /\ effects = "idle"

\* the client before any request, the viewer's uuid being id
AppEmpty(id) ==
  /\ currentUser = [id |-> id, name |-> "You", contribution_score |-> 0]
  /\ uuids = {id}
  /\ relationships = <<>>
  /\ requests = <<>>
  /\ nextRequestId = 1
  /\ nextRelationshipId = 1
  /\ expandedFriendId = NoUser
  /\ isTransitioningBack = FALSE
  /\ visibleConnectionCount = InitialVisibleCount
  /\ selectedConnection = NoRelationship
  /\ schedules = <<>>
  /\ transitionTimers = 0
  /\ mounted = TRUE
  /\ acceptingRequest = {}
  /\ formRelationshipType = ""
  /\ isAddModalOpen = FALSE
  /\ addModalError = ""
  /\ preExpansion = {}
  /\ Loaded

Init ==
  /\ \E id \in UserIds : AppEmpty(id)
  /\ DbEmpty

(***************************************************************************)
(* The stagger effect (App.tsx:148-176)                                    *)
(***************************************************************************)
\* A schedule is the pair of timers one run of the effect starts: phase
\* "startDelay" while the 500 ms timeout is pending, "interval" once it has
\* started the 200 ms interval; count and totalConnections are the closure's
\* variables; owned marks the timers the cleanup of the latest run clears.
NewSchedule(totalConnections) ==
  [phase |-> "startDelay", count |-> 0,
   totalConnections |-> totalConnections, owned |-> TRUE]

\* a cleanup that clears neither timer
EffectCleanup_ClearsNothing(timers) == timers

\* the cleanup the effect returns: clearTimeout(startDelay) and
\* clearInterval(intervalId)
EffectCleanup(timers) == SelectSeq(timers, LAMBDA t : ~t.owned)

\* timers no run of the effect holds a cleanup for any more
Disown(timers) == [i \in 1..Len(timers) |-> [timers[i] EXCEPT !.owned = FALSE]]

\* relationships.length + requests.filter(pending outgoing).length
TotalConnections(rels, reqs) ==
  Len(rels) + Len(SelectSeq(reqs, LAMBDA r :
                    r.status = "pending" /\ r.direction = "outgoing"))

\* The effect after a render in which the handler left the timers as
\* `timers` and the budget as `count`; requestsReplaced tells that setRequests
\* put a new array in place (the dependency is compared by identity).
staggerEffect(timers, count, requestsReplaced) ==
  LET changed == \/ isTransitioningBack' # isTransitioningBack
                 \/ expandedFriendId' # expandedFriendId
                 \/ count # visibleConnectionCount
                 \/ Len(relationships') # Len(relationships)
                 \/ requestsReplaced
      cleaned == Disown(EffectCleanup(timers))
  IN IF ~mounted' THEN /\ schedules' = timers
                       /\ visibleConnectionCount' = visibleConnectionCount
     ELSE IF ~changed THEN /\ schedules' = timers
                           /\ visibleConnectionCount' = count
     ELSE IF isTransitioningBack'
       THEN /\ visibleConnectionCount' = 0
            /\ schedules' = cleaned
     ELSE IF expandedFriendId' = NoUser /\ count = 0
       THEN /\ Len(cleaned) < MaxSchedules
            /\ visibleConnectionCount' = count
            /\ schedules' = Append(cleaned,
                 NewSchedule(TotalConnections(relationships', requests')))
     ELSE /\ visibleConnectionCount' = count
          /\ schedules' = cleaned

\* the save effect (App.tsx:139-146), run after a render that changed
\* relationships, requests, currentUser or loading
\* a save effect that writes whatever it is given
SaveEffectWrites_Unguarded(isLoading, user, rels, reqs, storage) ==
  Saved(user, rels, reqs)

\* the body of the save effect, run with the values of the render it closes
\* over: what localStorage holds after it
SaveEffectWrites(isLoading, user, rels, reqs, storage) ==
  IF ~isLoading /\ user.id # NoUser THEN Saved(user, rels, reqs) ELSE storage

saveEffect ==
  localStorage' = SaveEffectWrites(loading', currentUser', relationships',
                                   requests', localStorage)

\* the render that follows a handler which sets neither the budget nor a
\* timer; a change of the lists also ends the comparison with the snapshot
\* taken at the last expansion
Rerender(requestsReplaced) ==
  /\ staggerEffect(schedules, visibleConnectionCount, requestsReplaced)
  /\ saveEffect
  /\ preExpansion' = {}

(***************************************************************************)
(* Phone identifiers and their hash (App.tsx:84-93)                        *)
(***************************************************************************)
\* the texts the viewer can put into the phone field, as their characters
PhoneChars ==
  [t \in {"(555) 123-4567", "555.123.4567", "(555) 123-4568", "555-1234"} |->
     CASE t = "(555) 123-4567" ->
            <<"(", "5", "5", "5", ")", " ", "1", "2", "3", "-", "4", "5", "6", "7">>
       [] t = "555.123.4567" ->
            <<"5", "5", "5", ".", "1", "2", "3", ".", "4", "5", "6", "7">>
       [] t = "(555) 123-4568" ->
            <<"(", "5", "5", "5", ")", " ", "1", "2", "3", "-", "4", "5", "6", "8">>
       [] OTHER ->
            <<"5", "5", "5", "-", "1", "2", "3", "4">>]

PhoneTexts == DOMAIN PhoneChars

\* the digits of base 16
HexDigits == <<"0", "1", "2", "3", "4", "5", "6", "7", "8", "9", "a", "b", "c", "d", "e", "f">>

\* a replace that strips nothing
replaceNonDigits_Keeps(cs) == cs

\* phone.replace(/\D/g, '')
Digits == {"0", "1", "2", "3", "4", "5", "6", "7", "8", "9"}
replaceNonDigits(cs) == SelectSeq(cs, LAMBDA c : c \in Digits)

\* String.prototype.charCodeAt for the characters of a phone text
charCodeAt(c) ==
  CASE c = " " -> 32 [] c = "(" -> 40 [] c = ")" -> 41 [] c = "-" -> 45
    [] c = "." -> 46
    [] c = "0" -> 48 [] c = "1" -> 49 [] c = "2" -> 50 [] c = "3" -> 51
    [] c = "4" -> 52 [] c = "5" -> 53 [] c = "6" -> 54 [] c = "7" -> 55
    [] c = "8" -> 56 [] c = "9" -> 57

\* hash = ((hash << 5) - hash) + char; hash = hash & hash: 31 * hash + char
\* wrapped to 32 bits. A 32-bit word is kept as its two 16-bit halves.
HashStep(hash, char) ==
  LET lo == 31 * hash.lo + char
      hi == 31 * hash.hi + (lo \div 65536)
  IN [hi |-> hi % 65536, lo |-> lo % 65536]

\* the for loop of hashPhone
RECURSIVE HashLoop(_, _)
HashLoop(hash, cs) ==
  IF cs = <<>> THEN hash
  ELSE HashLoop(HashStep(hash, charCodeAt(Head(cs))), Tail(cs))

\* Math.abs of a 32-bit two's complement word
MathAbs(hash) ==
  IF hash.hi < 32768 THEN hash
  ELSE IF hash.lo = 0 THEN [hi |-> 65536 - hash.hi, lo |-> 0]
  ELSE [hi |-> 65535 - hash.hi, lo |-> 65536 - hash.lo]

\* Number.prototype.toString(16)
toString16(n) ==
  LET nibbles == <<n.hi \div 4096, (n.hi \div 256) % 16, (n.hi \div 16) % 16,
                   n.hi % 16, n.lo \div 4096, (n.lo \div 256) % 16,
                   (n.lo \div 16) % 16, n.lo % 16>>
      leading == {i \in 1..8 : \A j \in 1..i : nibbles[j] = 0}
      first == IF Cardinality(leading) = 8 THEN 8 ELSE Cardinality(leading) + 1
  IN [i \in 1..(9 - first) |-> HexDigits[nibbles[first + i - 1] + 1]]

\* hashPhone(phone)
hashPhone(cs) == toString16(MathAbs(HashLoop([hi |-> 0, lo |-> 0], cs)))

\* hashPhone(data.to_phone.replace(/\D/g, '')) for each text of the phone field
to_phone_hash == [t \in PhoneTexts |-> hashPhone(replaceNonDigits(PhoneChars[t]))]

(***************************************************************************)
(* Handlers of App.tsx                                                     *)
(***************************************************************************)
\* handleAddRelationship(data)
handleAddRelationship(to_name, to_phone, relationship_type, hide_reason) ==
  /\ nextRequestId <= MaxRequests
  /\ requests' = Append(requests,
       [id |-> nextRequestId,
        from_user_id |-> currentUser.id,
        to_phone_hash |-> to_phone_hash[to_phone],
        to_user_id |-> NoUser,
        to_name |-> to_name,
        from_name |-> "",
        relationship_type |-> relationship_type,
        hide_reason |-> hide_reason,
        status |-> "pending",
        direction |-> "outgoing"])
  /\ nextRequestId' = nextRequestId + 1
  /\ UNCHANGED <<currentUser, relationships, uuids, nextRelationshipId, dbVars, filters, loading, effects,
                 navVars, modalVars>>
  /\ Rerender(TRUE)

\* a simulated request that names the viewer as its sender
simulateIncomingRequest_FromSelf(randomName, randomType, otherUserId) ==
  /\ nextRequestId <= MaxRequests
  /\ otherUserId \notin uuids
  /\ requests' = Append(requests,
       [id |-> nextRequestId,
        from_user_id |-> currentUser.id,
        to_user_id |-> currentUser.id,
        to_name |-> "You",
        from_name |-> randomName,
        relationship_type |-> randomType,
        hide_reason |-> FALSE,
        status |-> "pending",
        direction |-> "incoming"])
  /\ nextRequestId' = nextRequestId + 1
  /\ uuids' = uuids \cup {otherUserId}
  /\ UNCHANGED <<currentUser, relationships, nextRelationshipId, dbVars, filters, loading, effects, addModalVars,
                 navVars, modalVars>>
  /\ Rerender(TRUE)

\* simulateIncomingRequest()
simulateIncomingRequest(randomName, randomType, otherUserId) ==
  /\ nextRequestId <= MaxRequests
  /\ otherUserId \notin uuids
  /\ requests' = Append(requests,
       [id |-> nextRequestId,
        from_user_id |-> otherUserId,
        to_user_id |-> currentUser.id,
        to_name |-> "You",
        from_name |-> randomName,
        relationship_type |-> randomType,
        hide_reason |-> FALSE,
        status |-> "pending",
        direction |-> "incoming"])
  /\ nextRequestId' = nextRequestId + 1
  /\ uuids' = uuids \cup {otherUserId}
  /\ UNCHANGED <<currentUser, relationships, nextRelationshipId, dbVars, filters, loading, effects, addModalVars,
                 navVars, modalVars>>
  /\ Rerender(TRUE)

\* a setRelationships updater that loses the new relationship
AddRelationship_Lost(rels, newRelationship) == rels

\* setRelationships(r => [...r, newRelationship])
AddRelationship(rels, newRelationship) == Append(rels, newRelationship)

\* the guard of acceptIncomingRequest (App.tsx:295-296)
CanAcceptIncoming(requestId) ==
  \E request \in FindRequest(requests, requestId) :
    request.status = "pending" /\ request.direction = "incoming"

\* acceptIncomingRequest(requestId, relationshipType)
acceptIncomingRequest(requestId, relationshipType) ==
  IF ~CanAcceptIncoming(requestId)
  THEN UNCHANGED nonModalVars
  ELSE \E request \in FindRequest(requests, requestId) :
    /\ relationships' = AddRelationship(relationships,
         [id |-> nextRelationshipId,
          user_a |-> currentUser.id,
          user_b |-> request.from_user_id,
          relationship_type |-> relationshipType,
          hide_reason |-> request.hide_reason,
          last_interaction |-> "today",
          name |-> IF request.from_name = "" THEN "Unknown"
                   ELSE request.from_name])
    /\ nextRelationshipId' = nextRelationshipId + 1
    /\ currentUser' = [currentUser EXCEPT
                         !.contribution_score = @ + 1]
    /\ requests' = [i \in 1..Len(requests) |->
         IF requests[i].id = requestId
         THEN [requests[i] EXCEPT !.status = "accepted",
                                  !.relationship_type = relationshipType]
         ELSE requests[i]]
    /\ UNCHANGED <<uuids, nextRequestId, dbVars, filters, loading, effects, addModalVars, navVars>>
    /\ Rerender(TRUE)

\* a decline that drops the request instead of keeping it as a record
declineRequest_Removes(requestId) ==
  /\ requests' = SelectSeq(requests, LAMBDA r : r.id # requestId)
  /\ UNCHANGED <<currentUser, relationships, uuids, nextRequestId,
                 nextRelationshipId, dbVars, filters, loading, effects, addModalVars, navVars>>
  /\ Rerender(TRUE)

\* declineRequest(requestId)
declineRequest(requestId) ==
  /\ requests' = [i \in 1..Len(requests) |->
       IF requests[i].id = requestId
       THEN [requests[i] EXCEPT !.status = "declined"]
       ELSE requests[i]]
  /\ UNCHANGED <<currentUser, relationships, uuids, nextRequestId,
                 nextRelationshipId, dbVars, filters, loading, effects, addModalVars, navVars>>
  /\ Rerender(TRUE)

\* a filter predicate that keeps the withdrawn request and drops the rest
KeepOnWithdraw_Inverted(r, requestId) == r.id = requestId

\* the predicate of the filter in withdrawRequest
KeepOnWithdraw(r, requestId) == r.id # requestId

\* withdrawRequest(requestId)
withdrawRequest(requestId) ==
  /\ requests' = SelectSeq(requests, LAMBDA r : KeepOnWithdraw(r, requestId))
  /\ UNCHANGED <<currentUser, relationships, uuids, nextRequestId,
                 nextRelationshipId, dbVars, filters, loading, effects, addModalVars, navVars, modalVars>>
  /\ Rerender(TRUE)

\* a removal that also drops the accepted requests
removeRelationship_Cascade(relationshipId) ==
  /\ relationships' = SelectSeq(relationships, LAMBDA r : r.id # relationshipId)
  /\ requests' = SelectSeq(requests, LAMBDA r : r.status # "accepted")
  /\ selectedConnection' = NoRelationship
  /\ UNCHANGED <<currentUser, uuids, nextRequestId,
                 nextRelationshipId, dbVars, filters, loading, effects, addModalVars, expandedFriendId,
                 isTransitioningBack, transitionTimers, mounted, modalVars>>
  /\ Rerender(TRUE)

\* removeRelationship(relationshipId)
removeRelationship(relationshipId) ==
  /\ relationships' = SelectSeq(relationships, LAMBDA r : r.id # relationshipId)
  /\ selectedConnection' = NoRelationship
  /\ UNCHANGED <<currentUser, requests, uuids, nextRequestId,
                 nextRelationshipId, dbVars, filters, loading, effects, addModalVars, expandedFriendId,
                 isTransitioningBack, transitionTimers, mounted, modalVars>>
  /\ Rerender(FALSE)

\* the guard of simulateAcceptOutgoing (App.tsx:350-351)
CanAcceptOutgoing(requestId) ==
  \E request \in FindRequest(requests, requestId) :
    request.status = "pending" /\ request.direction = "outgoing"

\* simulateAcceptOutgoing(requestId)
simulateAcceptOutgoing(requestId, otherUserId) ==
  IF ~CanAcceptOutgoing(requestId)
  THEN UNCHANGED vars
  ELSE \E request \in FindRequest(requests, requestId) :
    /\ otherUserId \notin uuids
    /\ relationships' = AddRelationship(relationships,
         [id |-> nextRelationshipId,
          user_a |-> currentUser.id,
          user_b |-> otherUserId,
          relationship_type |-> request.relationship_type,
          hide_reason |-> request.hide_reason,
          last_interaction |-> "today",
          name |-> request.to_name])
    /\ nextRelationshipId' = nextRelationshipId + 1
    /\ uuids' = uuids \cup {otherUserId}
    /\ currentUser' = [currentUser EXCEPT
                         !.contribution_score = @ + 1]
    /\ requests' = [i \in 1..Len(requests) |->
         IF requests[i].id = requestId
         THEN [requests[i] EXCEPT !.status = "accepted"]
         ELSE requests[i]]
    /\ UNCHANGED <<nextRequestId, dbVars, filters, loading, effects, addModalVars, navVars, modalVars>>
    /\ Rerender(TRUE)

(***************************************************************************)
(* Graph projection: buildGraphData (App.tsx:386-563)                      *)
(***************************************************************************)
\* The text of every display name the model uses, as its characters.
NameChars ==
  [n \in {"Emma Wilson", "Alex Chen", "Unknown", "You", ""} |->
     CASE n = "Emma Wilson" ->
            <<"E", "m", "m", "a", " ", "W", "i", "l", "s", "o", "n">>
       [] n = "Alex Chen" -> <<"A", "l", "e", "x", " ", "C", "h", "e", "n">>
       [] n = "Unknown" -> <<"U", "n", "k", "n", "o", "w", "n">>
       [] n = "You" -> <<"Y", "o", "u">>
       [] OTHER -> <<>>]

\* String.prototype.toLowerCase on one character
LowerChar(c) ==
  CASE c = "A" -> "a" [] c = "C" -> "c" [] c = "E" -> "e"
    [] c = "U" -> "u" [] c = "W" -> "w" [] c = "Y" -> "y"
    [] OTHER -> c

\* a conversion that keeps the case
toLowerCase_KeepsCase(cs) == cs

\* String.prototype.toLowerCase
toLowerCase(cs) == [i \in 1..Len(cs) |-> LowerChar(cs[i])]

\* String.prototype.includes
includes(cs, q) ==
  \E k \in 0..(Len(cs) - Len(q)) :
    \A j \in 1..Len(q) : cs[k + j] = q[j]

\* ids of graph nodes: an identity's uuid, `pending-${req.id}`,
\* `fof-${friendId}-${index}`
UserNode(id) == [kind |-> "user", id |-> id]
PendingNode(requestId) == [kind |-> "pending", id |-> requestId]
FofNode(friendId, index) == [kind |-> "fof", id |-> friendId, index |-> index]

\* crypto.randomUUID(): the text of the uuid numbered n, shortened to the
\* hex digit that tells it from the others
randomUUID(n) == <<HexDigits[(n % 16) + 1]>>

\* a placeholder id that is the bare request id
PendingNodeId_Bare(requestId) == randomUUID(requestId)

\* const nodeId = `pending-${req.id}`
PendingNodeId(requestId) ==
  <<"p", "e", "n", "d", "i", "n", "g", "-">> \o randomUUID(requestId)

\* the id string of a graph node: the identity's uuid, `pending-${req.id}`,
\* `fof-${expandedFriendId}-${index}`
NodeIdText(node) ==
  CASE node.kind = "user" -> randomUUID(node.id)
    [] node.kind = "pending" -> PendingNodeId(node.id)
    [] node.kind = "fof" ->
         <<"f", "o", "f", "-">> \o randomUUID(node.id)
           \o <<"-", HexDigits[node.index + 1]>>

\* String.prototype.startsWith
startsWith(cs, prefix) ==
  Len(cs) >= Len(prefix) /\ SubSeq(cs, 1, Len(prefix)) = prefix

\* the sum of the char codes of an identity's uuid (App.tsx:63-66); the uuid
\* of identity n is the one-character string with char code n
Seed(friendId) == friendId

\* generateFriendConnections(friendId, friendName): the indexes of the
\* connections it returns
generateFriendConnections(friendId) ==
  LET count == (Seed(friendId) % 4) + 2
  IN [i \in 1..count |-> i - 1]

\* relationships.filter(rel => ...) of the default view (App.tsx:492-499)
FilteredRelationships(searchQuery) ==
  LET keep(rel) ==
        \/ searchQuery = <<>>
        \/ includes(toLowerCase(NameChars[rel.name]), toLowerCase(searchQuery))
  IN SelectSeq(relationships, keep)

\* a budget test that stops one node early
BudgetSpent_OneEarly(addedCount, visibleCount) == addedCount + 1 >= visibleCount

\* if (addedCount >= visibleConnectionCount) return;
BudgetSpent(addedCount, visibleCount) == addedCount >= visibleCount

\* a set that reports every value as absent
has_Never(set, value) == FALSE

\* addedUsers.has(value)
has(set, value) == value \in set

\* a guard that never lets the counterpart's node in
PushIfFresh_Never(nodes, node, fresh) == nodes

\* if (!addedUsers.has(otherId) && otherUser) nodes.push({ id: otherId, ... })
PushIfFresh(nodes, node, fresh) == IF fresh THEN Append(nodes, node) ELSE nodes

\* filtered.forEach(rel => ...) (App.tsx:502-529)
RECURSIVE AddRelationshipNodes(_, _, _)
AddRelationshipNodes(rels, acc, visibleCount) ==
  IF rels = <<>> THEN acc
  ELSE
    LET rel == Head(rels)
        otherId == IF rel.user_a = currentUser.id THEN rel.user_b
                   ELSE rel.user_a
        fresh == ~has(acc.addedUsers, UserNode(otherId))
        next ==
          IF BudgetSpent(acc.addedCount, visibleCount) THEN acc
          ELSE [nodes |-> PushIfFresh(acc.nodes, UserNode(otherId), fresh),
                edges |-> Append(acc.edges,
                            [id |-> [kind |-> "rel", id |-> rel.id],
                             from |-> UserNode(currentUser.id),
                             to |-> UserNode(otherId)]),
                addedUsers |-> acc.addedUsers \cup {UserNode(otherId)},
                addedCount |-> IF fresh THEN acc.addedCount + 1
                               ELSE acc.addedCount]
    IN AddRelationshipNodes(Tail(rels), next, visibleCount)

\* a filter that keeps every request
PendingOutgoing_AnyStatus(reqs) == reqs

\* requests.filter(r => r.status === 'pending' && r.direction === 'outgoing')
PendingOutgoing(reqs) ==
  LET keep(r) == r.status = "pending" /\ r.direction = "outgoing"
  IN SelectSeq(reqs, keep)

\* pendingRequests.forEach(req => ...) (App.tsx:533-560)
RECURSIVE AddPendingNodes(_, _, _)
AddPendingNodes(reqs, acc, visibleCount) ==
  IF reqs = <<>> THEN acc
  ELSE
    LET req == Head(reqs)
        nodeId == PendingNode(req.id)
        next ==
          IF BudgetSpent(acc.addedCount, visibleCount) THEN acc
          ELSE IF ~has(acc.addedUsers, nodeId) /\ req.to_name # ""
          THEN [nodes |-> Append(acc.nodes, nodeId),
                edges |-> Append(acc.edges,
                            [id |-> [kind |-> "edge", id |-> req.id],
                             from |-> UserNode(currentUser.id),
                             to |-> nodeId]),
                addedUsers |-> acc.addedUsers \cup {nodeId},
                addedCount |-> acc.addedCount + 1]
          ELSE acc
    IN AddPendingNodes(Tail(reqs), next, visibleCount)

\* the expanded branch of buildGraphData (App.tsx:396-470)
ExpandedGraph(friendId) ==
  LET idx == {i \in 1..Len(relationships) :
                \/ relationships[i].user_b = friendId
                \/ relationships[i].user_a = friendId}
      conns == generateFriendConnections(friendId)
  IN IF idx = {} THEN [nodes |-> <<>>, edges |-> <<>>]
     ELSE [nodes |-> <<UserNode(friendId), UserNode(currentUser.id)>>
                     \o [i \in 1..Len(conns) |->
                           FofNode(friendId, conns[i])],
           edges |-> <<[id |-> [kind |-> "edge-you", id |-> friendId],
                        from |-> UserNode(friendId),
                        to |-> UserNode(currentUser.id)]>>
                     \o [i \in 1..Len(conns) |->
                           [id |-> [kind |-> "edge-fof",
                                    id |-> friendId,
                                    index |-> conns[i]],
                            from |-> UserNode(friendId),
                            to |-> FofNode(friendId, conns[i])]]]

\* buildGraphData(), as a function of the view state it reads
buildGraphData(friendId, transitioningBack, visibleCount, searchQuery) ==
  IF friendId # NoUser THEN ExpandedGraph(friendId)
  ELSE
    LET self == UserNode(currentUser.id)
        start == [nodes |-> <<self>>, edges |-> <<>>,
                  addedUsers |-> {self}, addedCount |-> 0]
        withRels == AddRelationshipNodes(FilteredRelationships(searchQuery),
                                         start, visibleCount)
        all == AddPendingNodes(PendingOutgoing(requests), withRels,
                               visibleCount)
    IN IF transitioningBack THEN [nodes |-> <<self>>, edges |-> <<>>]
       ELSE [nodes |-> all.nodes, edges |-> all.edges]

\* the isCurrentUser field of the nodes buildGraphData pushes: set on the
\* second node of the expanded view and on the first node of the default view
isCurrentUser(friendId, nodes) ==
  [i \in 1..Len(nodes) |-> IF friendId # NoUser THEN i = 2 ELSE i = 1]

\* processedNodes of NetworkGraph (NetworkGraph.tsx:344-372): the nodes that
\* get fixed: { x: true, y: true }, x: 0, y: 0, physics: false
processedNodes(nodes, expandedId) ==
  [i \in 1..Len(nodes) |->
     [id |-> nodes[i],
      fixed |-> \/ expandedId # NoUser /\ nodes[i] = UserNode(expandedId)
                \/ expandedId = NoUser /\ isCurrentUser(expandedId, nodes)[i]]]

\* the view states buildGraphData can be called in
SearchQueries == {<<>>, <<"a", "l">>}
VisibleCounts == 0..MaxRequests \cup {InitialVisibleCount}
Snapshots ==
  \* the expanded branch reads neither flag, budget nor query; the
  \* transition-back branch reads neither budget nor query
  {buildGraphData(e, FALSE, InitialVisibleCount, <<>>) : e \in UserIds}
  \cup {buildGraphData(NoUser, TRUE, InitialVisibleCount, <<>>)}
  \cup {buildGraphData(NoUser, FALSE, v, q) :
          v \in VisibleCounts, q \in SearchQueries}

Next ==
  \/ \E n \in Names, t \in RelTypes, h \in {FALSE} :
       handleAddRelationship(n, "(555) 123-4567", t, h) /\ UNCHANGED addModalVars
  \/ \E n \in SimNames, t \in RelTypes, u \in UserIds :
       simulateIncomingRequest(n, t, u)
  \/ \E id \in RequestIds, t \in RelTypes :
       acceptIncomingRequest(id, t) /\ UNCHANGED modalVars
  \/ \E id \in RequestIds : declineRequest(id) /\ UNCHANGED modalVars
  \/ \E id \in RequestIds : withdrawRequest(id)
  \/ \E id \in RequestIds : removeRelationship(id)
  \/ \E id \in RequestIds, u \in UserIds : simulateAcceptOutgoing(id, u)

Spec == Init /\ [][Next]_vars

(***************************************************************************)
(* The graph view: expanding and collapsing a peer, the reveal timers      *)
(***************************************************************************)
\* const graphData = buildGraphData()
graphData ==
  buildGraphData(expandedFriendId, isTransitioningBack,
                 visibleConnectionCount, filters.searchQuery)

\* a collapse that does not raise the flag
StartTransitionBack_NoFlag ==
  /\ isTransitioningBack' = isTransitioningBack
  /\ expandedFriendId' = NoUser
  /\ transitionTimers' = transitionTimers

\* setIsTransitioningBack(true); setExpandedFriendId(null);
\* setTimeout(() => setIsTransitioningBack(false), 300)
StartTransitionBack ==
  /\ isTransitioningBack' = TRUE
  /\ expandedFriendId' = NoUser
  /\ transitionTimers' = transitionTimers + 1

\* handleNodeClick(nodeId): NetworkGraph reports a click on a node it shows
handleNodeClick(nodeId) ==
  LET idx == {i \in 1..Len(relationships) :
                \/ relationships[i].user_a = nodeId.id
                \/ relationships[i].user_b = nodeId.id}
      rel == relationships[CHOOSE i \in idx : \A j \in idx : i <= j]
      friendId == IF rel.user_a = currentUser.id THEN rel.user_b
                  ELSE rel.user_a
  IN /\ nodeId \in Range(graphData.nodes)
     /\ IF nodeId = UserNode(currentUser.id)
        THEN /\ selectedConnection' = NoRelationship
             /\ IF expandedFriendId # NoUser
                THEN StartTransitionBack
                ELSE UNCHANGED <<isTransitioningBack, expandedFriendId,
                                 transitionTimers>>
             /\ UNCHANGED preExpansion
        ELSE IF nodeId.kind \in {"pending", "fof"} \/ idx = {}
        THEN UNCHANGED <<navVars, preExpansion>>
        ELSE IF expandedFriendId = friendId
        THEN /\ selectedConnection' = NoRelationship
             /\ StartTransitionBack
             /\ UNCHANGED preExpansion
        ELSE /\ selectedConnection' = rel.id
             /\ expandedFriendId' = friendId
             /\ preExpansion' = {graphData}
             /\ UNCHANGED <<isTransitioningBack, transitionTimers>>
     /\ UNCHANGED <<appVars, mounted, modalVars, dbVars, shellVars, addModalVars>>
     /\ staggerEffect(schedules, visibleConnectionCount, FALSE)

\* ProfilePanel onClose (App.tsx:653-662)
onCloseProfilePanel ==
  /\ selectedConnection # NoRelationship
  /\ selectedConnection' = NoRelationship
  /\ StartTransitionBack
  /\ UNCHANGED <<appVars, mounted, modalVars, dbVars, shellVars, addModalVars, preExpansion>>
  /\ staggerEffect(schedules, visibleConnectionCount, FALSE)

\* the callback of the 300 ms timer: setIsTransitioningBack(false); after
\* the unmount React drops the update
transitionBackTimeout ==
  /\ transitionTimers > 0
  /\ transitionTimers' = transitionTimers - 1
  /\ isTransitioningBack' = IF mounted THEN FALSE ELSE isTransitioningBack
  /\ UNCHANGED <<appVars, expandedFriendId, selectedConnection, mounted,
                 modalVars, dbVars, shellVars, addModalVars, preExpansion>>
  /\ staggerEffect(schedules, visibleConnectionCount, FALSE)

\* the callback of startDelay: intervalId = setInterval(..., 200)
startDelayTimeout(i) ==
  /\ i \in 1..Len(schedules)
  /\ schedules[i].phase = "startDelay"
  /\ schedules' = [schedules EXCEPT ![i].phase = "interval"]
  /\ UNCHANGED <<appVars, navVars, visibleConnectionCount, modalVars,
                 dbVars, shellVars, addModalVars, preExpansion>>

\* the callback of the interval: count++; setVisibleConnectionCount(count);
\* if (count >= totalConnections) clearInterval(intervalId)
intervalTick(i) ==
  /\ i \in 1..Len(schedules)
  /\ schedules[i].phase = "interval"
  /\ LET count == schedules[i].count + 1
         ticked == [schedules EXCEPT ![i].count = count]
         timers == IF count >= schedules[i].totalConnections
                   THEN SelectSeq([j \in 1..Len(ticked) |->
                                    [t |-> ticked[j], at |-> j]],
                                  LAMBDA e : e.at # i)
                   ELSE [j \in 1..Len(ticked) |-> [t |-> ticked[j], at |-> j]]
     IN /\ UNCHANGED <<appVars, navVars, modalVars, dbVars, shellVars, addModalVars, preExpansion>>
        /\ staggerEffect([j \in 1..Len(timers) |-> timers[j].t], count, FALSE)

\* an unmount that leaves the timers of the effect running
unmount_KeepsTimers ==
  /\ mounted
  /\ mounted' = FALSE
  /\ UNCHANGED <<appVars, expandedFriendId, isTransitioningBack,
                 selectedConnection, transitionTimers, effectVars,
                 modalVars, dbVars, shellVars, addModalVars, preExpansion>>

\* the component unmounts: React runs the cleanup of the effect
unmount ==
  /\ mounted
  /\ mounted' = FALSE
  /\ schedules' = EffectCleanup(schedules)
  /\ UNCHANGED <<appVars, expandedFriendId, isTransitioningBack,
                 selectedConnection, transitionTimers,
                 visibleConnectionCount, modalVars, dbVars, shellVars, addModalVars, preExpansion>>

\* what SelfProfilePanel hands to onUpdate (SelfProfilePanel.tsx:32)
ProfileUpdates == {[name |-> "Sam"]}

\* a profile update that carries a score
handleUpdateUser_ResetsScore(updates) ==
  /\ currentUser' = [currentUser EXCEPT !.contribution_score = 0]
  /\ UNCHANGED <<relationships, requests, uuids, nextRequestId,
                 nextRelationshipId, navVars, modalVars, dbVars, filters, loading, effects, addModalVars>>
  /\ Rerender(FALSE)

\* handleUpdateUser(updates): { ...u, ...updates }
handleUpdateUser(updates) ==
  /\ currentUser' = [f \in DOMAIN currentUser |->
                       IF f \in DOMAIN updates THEN updates[f]
                       ELSE currentUser[f]]
  /\ UNCHANGED <<relationships, requests, uuids, nextRequestId,
                 nextRelationshipId, navVars, modalVars, dbVars, filters, loading, effects, addModalVars>>
  /\ Rerender(FALSE)

InitView == AppEmpty(1) /\ DbEmpty

\* the handlers the mounted component offers, and the timers
NextView ==
  \/ \E n \in Names :
       /\ mounted
       /\ handleAddRelationship(n, "(555) 123-4567", "Friend", FALSE)
       /\ UNCHANGED addModalVars
  \/ \E n \in SimNames, u \in UserIds :
       mounted /\ simulateIncomingRequest(n, "Friend", u)
  \/ \E id \in RequestIds :
       mounted /\ acceptIncomingRequest(id, "Friend") /\ UNCHANGED modalVars
  \/ \E id \in RequestIds :
       mounted /\ declineRequest(id) /\ UNCHANGED modalVars
  \/ \E id \in RequestIds : mounted /\ withdrawRequest(id)
  \/ \E id \in RequestIds : mounted /\ removeRelationship(id)
  \/ \E id \in RequestIds, u \in UserIds :
       mounted /\ simulateAcceptOutgoing(id, u)
  \/ \E updates \in ProfileUpdates : mounted /\ handleUpdateUser(updates)
  \/ mounted /\ onCloseProfilePanel
  \/ \E nodeId \in Range(graphData.nodes) :
       mounted /\ handleNodeClick(nodeId)
  \/ unmount
  \/ transitionBackTimeout
  \/ \E i \in 1..Len(schedules) : startDelayTimeout(i)
  \/ \E i \in 1..Len(schedules) : intervalTick(i)

SpecView == InitView /\ [][NextView]_vars

(***************************************************************************)
(* AcceptRequestModal (unnamed/part_005:1-96) and its wiring in App.tsx    *)
(***************************************************************************)
\* what the viewer can put in the "How do you know them?" field
FormInputs == RelTypes \cup {"", " "}

\* String.prototype.trim on the values of the field
trim(str) == IF str = " " THEN "" ELSE str

\* uuids of the senders of simulated requests: one new identity per request
SenderIds == 1..(MaxRequests + 1)

\* "Reset form when request changes": the state update made while rendering
\* (part_005:22-25)
ResetForm(request, relationshipType) ==
  IF /\ request # {}
     /\ relationshipType = ""
     /\ \E r \in request : r.relationship_type # ""
  THEN (CHOOSE r \in request : TRUE).relationship_type
  ELSE relationshipType

\* PendingRequests onAcceptClick(request): the button of a pending incoming
\* request; setAcceptingRequest(request)
onAcceptClick(request) ==
  /\ acceptingRequest = {}
  /\ request \in Range(requests)
  /\ request.status = "pending" /\ request.direction = "incoming"
  /\ acceptingRequest' = {request}
  /\ formRelationshipType' = ResetForm({request}, formRelationshipType)
  /\ UNCHANGED nonModalVars

\* the field's onChange: setRelationshipType(e.target.value)
setRelationshipType(value) ==
  /\ acceptingRequest # {}
  /\ formRelationshipType' = ResetForm(acceptingRequest, value)
  /\ UNCHANGED <<acceptingRequest, nonModalVars>>

\* the modal's onClose: setAcceptingRequest(null)
onCloseAcceptModal ==
  /\ acceptingRequest # {}
  /\ acceptingRequest' = {}
  /\ UNCHANGED <<formRelationshipType, nonModalVars>>

\* handleAccept: the form's onSubmit
handleAccept ==
  \E request \in acceptingRequest :
    IF trim(formRelationshipType) = ""
    THEN UNCHANGED vars
    ELSE /\ acceptIncomingRequest(request.id, formRelationshipType)
         /\ formRelationshipType' = ""
         /\ acceptingRequest' = {}

\* handleDecline: the Decline button
handleDecline ==
  \E request \in acceptingRequest :
    /\ declineRequest(request.id)
    /\ formRelationshipType' = ""
    /\ acceptingRequest' = {}

InitModal == AppEmpty(1) /\ DbEmpty

NextModal ==
  \/ \E n \in SimNames, t \in RelTypes, u \in SenderIds :
       simulateIncomingRequest(n, t, u)
  \/ \E request \in Range(requests) : onAcceptClick(request)
  \/ \E value \in FormInputs : setRelationshipType(value)
  \/ onCloseAcceptModal
  \/ handleAccept
  \/ handleDecline

SpecModal == InitModal /\ [][NextModal]_vars

(***************************************************************************)
(* Network depth and insights (App.tsx:178-179, 566-593), over the lists   *)
(* the load effect reads from localStorage (App.tsx:115-137)               *)
(***************************************************************************)
\* a depth that opens the third tier one relationship late
NetworkDepthOf_LateTier(length) == IF length > 5 THEN 3 ELSE IF length >= 2 THEN 2 ELSE 1

\* relationships.length >= 5 ? 3 : relationships.length >= 2 ? 2 : 1
NetworkDepthOf(length) == IF length >= 5 THEN 3 ELSE IF length >= 2 THEN 2 ELSE 1

\* const networkDepth = ...
networkDepth == NetworkDepthOf(Len(relationships))

\* NetworkStatus getNextMilestone(): the target of the next level, 0 for null
getNextMilestone(totalConnections) ==
  IF totalConnections < 2 THEN 2
  ELSE IF totalConnections < 5 THEN 5
  ELSE 0

\* the keys of connectionCounts in the order Object.entries lists them: a
\* uuid is not an array index, so keys come in insertion order, user_a
\* before user_b for each relationship in turn
RECURSIVE ConnectionCountKeys(_, _)
ConnectionCountKeys(rels, acc) ==
  IF rels = <<>> THEN acc
  ELSE LET rel == Head(rels)
           withA == IF rel.user_a \in Range(acc) THEN acc
                    ELSE Append(acc, rel.user_a)
           withB == IF rel.user_b \in Range(withA) THEN withA
                    ELSE Append(withA, rel.user_b)
       IN ConnectionCountKeys(Tail(rels), withB)

\* connectionCounts[id] after the forEach
connectionCounts(rels, id) ==
  Len(SelectSeq(rels, LAMBDA r : r.user_a = id))
  + Len(SelectSeq(rels, LAMBDA r : r.user_b = id))

\* a sort that puts the smaller id first among equal counts
FirstAmongEqual_ByIdValue(keys, idx) ==
  CHOOSE i \in idx : \A j \in idx : keys[i] <= keys[j]

\* Array.prototype.sort is stable: among entries the comparator calls equal
\* the one that came first stays first
FirstAmongEqual(keys, idx) ==
  CHOOSE i \in idx : \A j \in idx : i <= j

\* .sort((a, b) => b[1] - a[1]) over the entries of connectionCounts
RECURSIVE SortByCountDescending(_, _)
SortByCountDescending(keys, rels) ==
  IF keys = <<>> THEN <<>>
  ELSE LET top == {i \in 1..Len(keys) :
                     \A j \in 1..Len(keys) :
                       connectionCounts(rels, keys[j])
                         <= connectionCounts(rels, keys[i])}
           best == FirstAmongEqual(keys, top)
           rest == [k \in 1..(Len(keys) - 1) |->
                      IF k < best THEN keys[k] ELSE keys[k + 1]]
       IN <<keys[best]>> \o SortByCountDescending(rest, rels)

\* Array.prototype.slice(0, end)
slice(arr, end) == SubSeq(arr, 1, IF Len(arr) < end THEN Len(arr) ELSE end)

\* new Date(rel.last_interaction) < threeMonthsAgo, for the two dates the
\* model tells apart: the day the app runs and a day more than 3 months ago
IsFading(rel) == rel.last_interaction = "long ago"

\* calculateInsights(): bridges is always empty and clusterCount always 1
calculateInsights ==
  [bridges |-> <<>>,
   centralNodes |->
     slice(SortByCountDescending(ConnectionCountKeys(relationships, <<>>),
                                 relationships), 3),
   fadingRelationships |-> SelectSeq(relationships, IsFading),
   clusterCount |-> 1,
   totalConnections |-> Len(relationships)]

\* const insights = calculateInsights()
insights == calculateInsights

\* InsightsPanel({ insights, networkDepth }): the fields of insights whose
\* value the panel renders
InsightsPanel(shown, depth) ==
  IF depth < 2 THEN {}
  ELSE {"totalConnections"}
       \cup (IF Len(shown.fadingRelationships) > 0
             THEN {"fadingRelationships"} ELSE {})
       \cup (IF depth >= 3
             THEN {"clusterCount"}
                  \cup (IF Len(shown.bridges) > 0 THEN {"bridges"} ELSE {})
             ELSE {})

\* <InsightsPanel insights={insights} networkDepth={networkDepth} />, inside
\* the sidebar that needs at least one relationship
exposedInsights ==
  IF Len(relationships) > 0 THEN InsightsPanel(insights, networkDepth)
  ELSE {}

\* JSON.parse(storedRels): the list whose i-th relationship joins the viewer
\* and the counterpart peers[i]
StoredRelationshipList(peers, last_interaction) ==
  [i \in 1..Len(peers) |->
     [id |-> i, user_a |-> 1, user_b |-> peers[i],
      relationship_type |-> "Friend", hide_reason |-> FALSE,
      last_interaction |-> last_interaction,
      name |-> "Alex Chen"]]

\* the sequences of counterparts of length n
RECURSIVE PeerSeqs(_)
PeerSeqs(n) ==
  IF n = 0 THEN {<<>>}
  ELSE {Append(s, p) : s \in PeerSeqs(n - 1), p \in PeerIds}

\* the relationship lists localStorage can hold
StoredRelationships ==
  UNION {{StoredRelationshipList(s, d) :
            s \in PeerSeqs(n), d \in {"today", "long ago"}} : n \in 0..MaxStored}

\* JSON.parse(storedReqs): the request lists localStorage can hold: none, a
\* request of the viewer that was accepted, a request sent to the viewer
StoredRequests ==
  {<<>>,
   <<[id |-> 1, from_user_id |-> 1, to_user_id |-> NoUser,
      to_name |-> "Emma Wilson", from_name |-> "",
      relationship_type |-> "Friend", hide_reason |-> FALSE,
      status |-> "accepted", direction |-> "outgoing"]>>,
   <<[id |-> 1, from_user_id |-> MaxPeers + 2, to_user_id |-> 1,
      to_name |-> "You", from_name |-> "Alex Chen",
      relationship_type |-> "Friend", hide_reason |-> FALSE,
      status |-> "pending", direction |-> "incoming"]>>}

\* the state after the load effect: the stored user, relationships and
\* requests are in place
InitStored ==
  /\ \E rels \in StoredRelationships, reqs \in StoredRequests :
       /\ relationships = rels
       /\ nextRelationshipId = Len(rels) + 1
       /\ requests = reqs
       /\ nextRequestId = Len(reqs) + 1
       /\ uuids = {1} \cup {rels[i].user_b : i \in 1..Len(rels)}
                     \cup {reqs[i].from_user_id : i \in 1..Len(reqs)}
  /\ currentUser = [id |-> 1, name |-> "You", contribution_score |-> 0]
  /\ expandedFriendId = NoUser
  /\ isTransitioningBack = FALSE
  /\ visibleConnectionCount = InitialVisibleCount
  /\ selectedConnection = NoRelationship
  /\ schedules = <<>>
  /\ transitionTimers = 0
  /\ mounted = TRUE
  /\ acceptingRequest = {}
  /\ formRelationshipType = ""
  /\ isAddModalOpen = FALSE
  /\ addModalError = ""
  /\ preExpansion = {}
  /\ Loaded
  /\ DbEmpty

\* the viewer adds requests to a loaded network
NextStored ==
  \E n \in Names :
    handleAddRelationship(n, "(555) 123-4567", "Friend", FALSE) /\ UNCHANGED addModalVars

SpecStored == InitStored /\ [][NextStored]_vars

(***************************************************************************)
(* The v2 schema (unnamed/part_000:1-158)                                  *)
(***************************************************************************)
\* LEAST / GREATEST of two ids
LEAST(a, b) == IF a <= b THEN a ELSE b
GREATEST(a, b) == IF a >= b THEN a ELSE b

\* INSERT INTO relationship_requests by the signed-in user uid; the policy
\* "Users can create requests" admits the row only when uid = from_user_id.
\* The columns kept are those accept_relationship_request reads or writes.
InsertRelationshipRequest(uid, from_user_id, relationship_type, hide_reason) ==
  /\ db_nextRequestId <= MaxDbRequests
  /\ IF uid = from_user_id
     THEN /\ db_relationship_requests' = db_relationship_requests \cup
               {[id |-> db_nextRequestId,
                 from_user_id |-> from_user_id,
                 to_user_id |-> NoUser,
                 relationship_type |-> relationship_type,
                 hide_reason |-> hide_reason,
                 status |-> "pending"]}
          /\ db_nextRequestId' = db_nextRequestId + 1
     ELSE UNCHANGED <<db_relationship_requests, db_nextRequestId>>
  /\ UNCHANGED <<clientVars, db_users, db_relationships, connVars>>

\* INSERT INTO relationships ... ON CONFLICT (user_a, user_b) DO NOTHING
InsertRelationshipOnConflictDoNothing(rows, row) ==
  IF \E r \in rows : r.user_a = row.user_a /\ r.user_b = row.user_b
  THEN rows
  ELSE rows \cup {row}

\* an update of the scores that forgets the sender
IncrementScores_AcceptorOnly(users, from_user_id, uid) ==
  [users EXCEPT ![uid] = @ + 1]

\* the two UPDATE users SET contribution_score = contribution_score + 1
IncrementScores(users, from_user_id, uid) ==
  LET once == [users EXCEPT ![from_user_id] = @ + 1]
  IN [once EXCEPT ![uid] = @ + 1]

\* accept_relationship_request(request_id), called by the signed-in user uid
accept_relationship_request(uid, request_id) ==
  LET found == {r \in db_relationship_requests : r.id = request_id}
  IN IF found = {}
     THEN UNCHANGED vars
     ELSE \E req \in found :
       /\ db_users[req.from_user_id] < MaxScore
       /\ db_users[uid] < MaxScore
       /\ db_relationship_requests' =
            {IF r.id = request_id
             THEN [r EXCEPT !.status = "accepted", !.to_user_id = uid]
             ELSE r : r \in db_relationship_requests}
       /\ db_relationships' =
            InsertRelationshipOnConflictDoNothing(db_relationships,
              [user_a |-> LEAST(req.from_user_id, uid),
               user_b |-> GREATEST(req.from_user_id, uid),
               relationship_type |-> req.relationship_type,
               hide_reason |-> req.hide_reason])
       /\ db_users' = IncrementScores(db_users, req.from_user_id, uid)
       /\ UNCHANGED <<clientVars, connVars, db_nextRequestId>>

\* the IF / ELSIF / ELSE of get_network_depth over rel_count
DepthOfCount(rel_count) ==
  IF rel_count >= 5 THEN 3
  ELSE IF rel_count >= 2 THEN 2
  ELSE 1

\* get_network_depth(user_id)
get_network_depth(user_id) ==
  DepthOfCount(Cardinality({r \in db_relationships :
                              r.user_a = user_id \/ r.user_b = user_id}))

\* the database alone: no client state takes part
InitSql == AppEmpty(1) /\ DbEmpty

NextSql ==
  \/ \E uid \in DbUsers, f \in DbUsers, t \in RelTypes, h \in BOOLEAN :
       InsertRelationshipRequest(uid, f, t, h)
  \/ \E uid \in DbUsers, id \in DbRequestIds :
       accept_relationship_request(uid, id)

SpecSql == InitSql /\ [][NextSql]_vars

(***************************************************************************)
(* supabase.ts over connections and connection_requests                    *)
(* (tables and policies: unnamed/part_000:283-499, supabase-rls-fix.sql)   *)
(***************************************************************************)
\* the result of a request: the row it returns, or an error
Ok(row) == [error |-> FALSE, data |-> row]
Err == [error |-> TRUE]

\* the trigger match_connection_request_to_user: the profile whose phone is
\* to_phone, if any; the phone of profile u is u
match_connection_request_to_user(to_phone) ==
  IF to_phone \in DbUsers THEN to_phone ELSE NoUser

\* row-level policies, for the signed-in user uid
CanInsertConnection(uid, row) == uid = row.user_a
CanDeleteConnection(uid, row) == uid = row.user_a \/ uid = row.user_b
CanViewRequest(uid, row) == uid = row.from_user_id \/ uid = row.to_user_id
CanInsertRequest(uid, row) == uid = row.from_user_id
CanUpdateRequest(uid, row) == uid = row.to_user_id
CanDeleteRequest(uid, row) == uid = row.from_user_id

\* UNIQUE(user_a, user_b) on connections
UniqueConnection(rows, row) ==
  ~\E r \in rows : r.user_a = row.user_a /\ r.user_b = row.user_b

\* createConnectionRequest(request)
createConnectionRequest(uid, from_user_id, to_phone) ==
  LET row == [id |-> db_nextRequestId,
              from_user_id |-> from_user_id,
              to_phone |-> to_phone,
              to_user_id |-> match_connection_request_to_user(to_phone),
              status |-> "pending"]
  IN /\ db_nextRequestId <= MaxDbRequests
     /\ IF CanInsertRequest(uid, row)
        THEN /\ db_connection_requests' = db_connection_requests \cup {row}
             /\ db_nextRequestId' = db_nextRequestId + 1
        ELSE UNCHANGED <<db_connection_requests, db_nextRequestId>>
     /\ UNCHANGED <<clientVars, sqlVars, db_profiles, db_connections, db_nextConnectionId>>

\* updateConnectionRequest(requestId, status)
updateConnectionRequest(uid, requestId, status) ==
  /\ db_connection_requests' =
       {IF r.id = requestId /\ CanUpdateRequest(uid, r)
        THEN [r EXCEPT !.status = status]
        ELSE r : r \in db_connection_requests}
  /\ UNCHANGED <<clientVars, sqlVars, db_profiles, db_connections, db_nextConnectionId,
                 db_nextRequestId>>

\* the insert of a connections row by uid: policy, then UNIQUE
InsertConnection(uid, user_a, user_b) ==
  LET row == [id |-> db_nextConnectionId, user_a |-> user_a,
              user_b |-> user_b]
  IN IF CanInsertConnection(uid, row) /\ UniqueConnection(db_connections, row)
     THEN Ok(row)
     ELSE Err

\* acceptConnectionRequest(requestId, currentUserId), called by uid
acceptConnectionRequest(uid, requestId, currentUserId) ==
  LET found == {r \in db_connection_requests :
                  r.id = requestId /\ CanViewRequest(uid, r)}
  IN IF found = {}
     THEN UNCHANGED vars                       \* fetchError
     ELSE \E request \in found :
       LET inserted == InsertConnection(uid, request.from_user_id,
                                        currentUserId)
           updated == [request EXCEPT !.status = "accepted",
                                      !.to_user_id = currentUserId]
       IN IF inserted.error
          THEN UNCHANGED vars                  \* connectionError
          ELSE /\ db_nextConnectionId <= MaxDbConnections
               /\ db_connections' = db_connections \cup {inserted.data}
               /\ db_nextConnectionId' = db_nextConnectionId + 1
               /\ IF CanUpdateRequest(uid, request)
                     /\ CanUpdateRequest(uid, updated)
                  THEN db_connection_requests' =
                         (db_connection_requests \ {request}) \cup {updated}
                  ELSE UNCHANGED db_connection_requests   \* updateError
               /\ UNCHANGED <<clientVars, sqlVars, db_profiles, db_nextRequestId>>

\* deleteConnectionRequest(requestId)
deleteConnectionRequest(uid, requestId) ==
  /\ db_connection_requests' =
       {r \in db_connection_requests :
          ~(r.id = requestId /\ CanDeleteRequest(uid, r))}
  /\ UNCHANGED <<clientVars, sqlVars, db_profiles, db_connections, db_nextConnectionId,
                 db_nextRequestId>>

\* createConnection(userA, userB)
createConnection(uid, userA, userB) ==
  LET inserted == InsertConnection(uid, userA, userB)
  IN IF inserted.error
     THEN UNCHANGED vars
     ELSE /\ db_nextConnectionId <= MaxDbConnections
          /\ db_connections' = db_connections \cup {inserted.data}
          /\ db_nextConnectionId' = db_nextConnectionId + 1
          /\ UNCHANGED <<clientVars, sqlVars, db_profiles, db_connection_requests,
                         db_nextRequestId>>

\* deleteConnection(connectionId)
deleteConnection(uid, connectionId) ==
  /\ db_connections' =
       {c \in db_connections :
          ~(c.id = connectionId /\ CanDeleteConnection(uid, c))}
  /\ UNCHANGED <<clientVars, sqlVars, db_profiles, db_connection_requests,
                 db_nextConnectionId, db_nextRequestId>>

\* the database alone: no client state takes part
InitConn == AppEmpty(1) /\ DbEmpty

NextConn ==
  \/ \E uid \in DbUsers, f \in DbUsers, p \in DbUsers \cup {NoUser} :
       createConnectionRequest(uid, f, p)
  \/ \E uid \in DbUsers, id \in DbRequestIds,
        st \in {"accepted", "declined"} :
       updateConnectionRequest(uid, id, st)
  \/ \E uid \in DbUsers, id \in DbRequestIds :
       acceptConnectionRequest(uid, id, uid)
  \/ \E uid \in DbUsers, id \in DbRequestIds :
       deleteConnectionRequest(uid, id)
  \/ \E uid \in DbUsers, a \in DbUsers, b \in DbUsers :
       createConnection(uid, a, b)
  \/ \E uid \in DbUsers, id \in DbConnectionIds :
       deleteConnection(uid, id)

SpecConn == InitConn /\ [][NextConn]_vars

(***************************************************************************)
(* The signed-in App (unnamed/part_003) over supabase.ts, with the phone   *)
(* form of AddRelationshipModal (AddRelationshipModal.tsx:1-168)           *)
(***************************************************************************)
\* what the 10 boxes of the phone field can hold: the number of boxes filled
\* and the profile the number belongs to; the phone of profile u is u
PhoneEntries ==
  {[digits |-> 10, to_phone |-> 2], [digits |-> 10, to_phone |-> NoUser],
   [digits |-> 9, to_phone |-> NoUser]}

\* const isPhoneComplete = phoneDigits.filter(d => d !== '').length === 10
isPhoneComplete(entry) == entry.digits = 10

\* createConnectionRequest(request) as its caller sees it: the row it
\* returns, or the error it throws; reachable is FALSE when the request to
\* the server fails
CreateConnectionRequestResult(uid, from_user_id, to_phone, reachable) ==
  LET row == [id |-> db_nextRequestId,
              from_user_id |-> from_user_id,
              to_phone |-> to_phone,
              to_user_id |-> match_connection_request_to_user(to_phone),
              status |-> "pending"]
  IN IF reachable /\ CanInsertRequest(uid, row) THEN Ok(row) ELSE Err

\* handleAddConnection(data): the promise it returns always resolves
handleAddConnection(data, reachable) ==
  LET created == CreateConnectionRequestResult(currentUser.id, currentUser.id,
                                               data.to_phone, reachable)
      newRequest(id) == [id |-> id,
                         from_user_id |-> currentUser.id,
                         to_phone |-> data.to_phone,
                         to_user_id |-> NoUser,
                         status |-> "pending",
                         direction |-> "outgoing"]
  IN /\ nextRequestId <= MaxRequests
     /\ nextRequestId' = nextRequestId + 1
     /\ IF ~created.error
        THEN /\ db_nextRequestId <= MaxDbRequests
             /\ db_connection_requests' =
                  db_connection_requests \cup {created.data}
             /\ db_nextRequestId' = db_nextRequestId + 1
             /\ requests' = Append(requests,
                  newRequest([origin |-> "db", n |-> created.data.id]))
        ELSE \* catch: "Still add locally for demo purposes"
             /\ UNCHANGED <<db_connection_requests, db_nextRequestId>>
             /\ requests' = Append(requests,
                  newRequest([origin |-> "local", n |-> nextRequestId]))

\* onAddContact: setIsAddModalOpen(true)
onAddContact ==
  /\ ~isAddModalOpen
  /\ isAddModalOpen' = TRUE
  /\ UNCHANGED <<appVars, navVars, effectVars, modalVars, addModalError,
                 preExpansion, dbVars, shellVars>>

\* handleSubmit of the phone form: await onAdd({ to_phone }), then onClose()
handleSubmitConnection(entry, reachable) ==
  /\ isAddModalOpen
  /\ IF ~isPhoneComplete(entry)
     THEN /\ addModalError' = "Please enter all 10 digits"
          /\ UNCHANGED <<requests, nextRequestId, isAddModalOpen,
                         db_connection_requests, db_nextRequestId>>
     ELSE /\ handleAddConnection([to_phone |-> entry.to_phone], reachable)
          /\ addModalError' = ""
          /\ isAddModalOpen' = FALSE
  /\ UNCHANGED <<currentUser, relationships, uuids, nextRelationshipId,
                 navVars, effectVars, modalVars, preExpansion, shellVars, sqlVars,
                 db_connections, db_nextConnectionId, db_profiles>>

\* upsertProfile(profile) called by uid, as its caller sees it: the profiles
\* table afterwards, and whether it threw. Every user has a row, so the
\* update finds it unless the request fails or the policy "Users can update
\* own profile" hides the row.
upsertProfile(uid, profile, reachable) ==
  IF reachable /\ uid = profile.id
  THEN [error |-> FALSE,
        profiles |-> [db_profiles EXCEPT ![profile.id] = profile.name]]
  ELSE [error |-> TRUE, profiles |-> db_profiles]

\* handleUpdateUser(updates) of the signed-in App
handleUpdateUserRemote(updates, reachable) ==
  LET merged == [f \in DOMAIN currentUser |->
                   IF f \in DOMAIN updates THEN updates[f]
                   ELSE currentUser[f]]
      written == upsertProfile(currentUser.id,
                   [id |-> currentUser.id,
                    name |-> IF "name" \in DOMAIN updates /\ updates.name # ""
                             THEN updates.name ELSE currentUser.name],
                   reachable)
  IN \* catch (err) { console.error(...) }: the merged profile stays
     /\ currentUser' = merged
     /\ db_profiles' = written.profiles
     /\ UNCHANGED <<relationships, requests, uuids, nextRequestId,
                    nextRelationshipId, navVars, effectVars, modalVars,
                    addModalVars, preExpansion, shellVars, sqlVars,
                    db_connection_requests, db_connections,
                    db_nextConnectionId, db_nextRequestId>>

\* the names the profile form can send
RemoteProfileUpdates == {[name |-> "Sam"], [name |-> "You"]}

InitRemote == AppEmpty(1) /\ DbEmpty

NextRemote ==
  \/ onAddContact
  \/ \E entry \in PhoneEntries, reachable \in BOOLEAN :
       handleSubmitConnection(entry, reachable)
  \/ \E updates \in RemoteProfileUpdates, reachable \in BOOLEAN :
       handleUpdateUserRemote(updates, reachable)

SpecRemote == InitRemote /\ [][NextRemote]_vars

(***************************************************************************)
(* The relationship form of AddRelationshipModal                           *)
(* (AddRelationshipModal.tsx:170-327), whose onAdd is handleAddRelationship *)
(***************************************************************************)
\* the texts the viewer can put into the "How do you know them?" field, as
\* their characters
TypeChars ==
  [t \in {"", "Friend", "College friend", "Old college friend", "abcdefghijklmnopqrstuvwxyzabcde", "abcdefghijklmnopqrstuvwxyzabcd"} |->
     CASE t = "" ->
            <<>>
       [] t = "Friend" ->
            <<"F", "r", "i", "e", "n", "d">>
       [] t = "College friend" ->
            <<"C", "o", "l", "l", "e", "g", "e", " ", "f", "r", "i", "e", "n", "d">>
       [] t = "Old college friend" ->
            <<"O", "l", "d", " ", "c", "o", "l", "l", "e", "g", "e", " ", "f", "r", "i", "e", "n", "d">>
       [] t = "abcdefghijklmnopqrstuvwxyzabcde" ->
            <<"a", "b", "c", "d", "e", "f", "g", "h", "i", "j", "k", "l", "m", "n", "o", "p", "q", "r", "s", "t", "u", "v", "w", "x", "y", "z", "a", "b", "c", "d", "e">>
       [] OTHER ->
            <<"a", "b", "c", "d", "e", "f", "g", "h", "i", "j", "k", "l", "m", "n", "o", "p", "q", "r", "s", "t", "u", "v", "w", "x", "y", "z", "a", "b", "c", "d">>]

TypeTexts == DOMAIN TypeChars

\* an input that lets any length through
InputValue_NoMaxLength(typed) == typed

\* <input maxLength={30}>: the value the field holds after the viewer has
\* entered typed; the browser keeps the first 30 characters
InputValue(typed) ==
  LET kept == SubSeq(TypeChars[typed], 1,
                     IF Len(TypeChars[typed]) < 30 THEN Len(TypeChars[typed])
                     ELSE 30)
  IN CHOOSE t \in TypeTexts : TypeChars[t] = kept

\* validatePhone(phone)
validatePhone(phone) ==
  LET cleaned == replaceNonDigits(PhoneChars[phone])
  IN Len(cleaned) >= 10 /\ Len(cleaned) <= 15

\* relationship_type.trim().split(/\s+/).length for a text with no leading
\* or trailing space: the number of places where a word starts
WordCount(cs) ==
  Cardinality({i \in 1..Len(cs) :
                 cs[i] # " " /\ (i = 1 \/ cs[i - 1] = " ")})

\* handleSubmit of the relationship form, the fields holding formData
handleSubmit(formData) ==
  /\ isAddModalOpen
  /\ IF trim(formData.to_name) = ""
     THEN /\ addModalError' = "Name is required"
          /\ UNCHANGED <<appVars, navVars, effectVars, modalVars, isAddModalOpen,
                         preExpansion, dbVars, shellVars>>
     ELSE IF ~validatePhone(formData.to_phone)
     THEN /\ addModalError' = "Please enter a valid phone number"
          /\ UNCHANGED <<appVars, navVars, effectVars, modalVars, isAddModalOpen,
                         preExpansion, dbVars, shellVars>>
     ELSE IF trim(formData.relationship_type) = ""
     THEN /\ addModalError' = "Relationship type is required"
          /\ UNCHANGED <<appVars, navVars, effectVars, modalVars, isAddModalOpen,
                         preExpansion, dbVars, shellVars>>
     ELSE IF WordCount(TypeChars[formData.relationship_type]) > 2
     THEN /\ addModalError' = "Relationship type should be 1-2 words"
          /\ UNCHANGED <<appVars, navVars, effectVars, modalVars, isAddModalOpen,
                         preExpansion, dbVars, shellVars>>
     ELSE /\ handleAddRelationship(formData.to_name, formData.to_phone,
                                   formData.relationship_type,
                                   formData.hide_reason)
          /\ addModalError' = ""
          /\ isAddModalOpen' = FALSE

\* what the fields can hold when the form is submitted
FormDatas ==
  [to_name : {"", "Emma Wilson"},
   to_phone : PhoneTexts,
   relationship_type : {InputValue(typed) : typed \in TypeTexts},
   hide_reason : BOOLEAN]

InitForm == AppEmpty(1) /\ DbEmpty

NextForm ==
  \/ onAddContact
  \/ \E formData \in FormDatas : handleSubmit(formData)

SpecForm == InitForm /\ [][NextForm]_vars

(***************************************************************************)
(* GraphControls (unnamed/part_006) and the filters of App.tsx              *)
(***************************************************************************)
\* user_b_data.name of a stored counterpart
NameOfPeer(p) == IF p % 2 = 0 THEN "Alex Chen" ELSE "Emma Wilson"

\* the lists of n stored relationships, each naming a counterpart and
\* carrying its hide_reason flag
RECURSIVE ListedSeqs(_)
ListedSeqs(n) ==
  IF n = 0 THEN {<<>>}
  ELSE {Append(rels,
          [id |-> n, user_a |-> 1, user_b |-> p,
           relationship_type |-> "Friend", hide_reason |-> h,
           last_interaction |-> "today", name |-> NameOfPeer(p)]) :
          rels \in ListedSeqs(n - 1), p \in PeerIds, h \in BOOLEAN}

ListedRelationships == UNION {ListedSeqs(n) : n \in 0..MaxListed}

\* what the viewer can type into the search box
SearchInputs == {<<>>, <<"a", "l">>, <<"E", "m">>}

\* onFilterChange(f): setFilters(prev => ({ ...prev, ...f })); GraphControls
\* is rendered while there is a relationship
onFilterChange(f) ==
  /\ relationships # <<>>
  /\ filters' = [k \in DOMAIN filters |->
                   IF k \in DOMAIN f THEN f[k] ELSE filters[k]]
  /\ UNCHANGED <<appVars, navVars, effectVars, modalVars, addModalVars,
                 loading, localStorage, effects, preExpansion, dbVars>>

\* the app after loading a stored list, the filters untouched
InitFilter ==
  /\ \E rels \in ListedRelationships, reqs \in StoredRequests :
       /\ relationships = rels
       /\ nextRelationshipId = Len(rels) + 1
       /\ requests = reqs
       /\ nextRequestId = Len(reqs) + 1
       /\ uuids = {1} \cup {rels[i].user_b : i \in 1..Len(rels)}
                     \cup {reqs[i].from_user_id : i \in 1..Len(reqs)}
  /\ currentUser = [id |-> 1, name |-> "You", contribution_score |-> 0]
  /\ expandedFriendId = NoUser
  /\ isTransitioningBack = FALSE
  /\ visibleConnectionCount = InitialVisibleCount
  /\ selectedConnection = NoRelationship
  /\ schedules = <<>>
  /\ transitionTimers = 0
  /\ mounted = TRUE
  /\ acceptingRequest = {}
  /\ formRelationshipType = ""
  /\ isAddModalOpen = FALSE
  /\ addModalError = ""
  /\ preExpansion = {}
  /\ Loaded
  /\ DbEmpty

NextFilter ==
  \/ \E q \in SearchInputs : onFilterChange([searchQuery |-> q])
  \/ \E b \in BOOLEAN : onFilterChange([showHidden |-> b])
  \/ \E n \in Names :
       handleAddRelationship(n, "(555) 123-4567", "Friend", FALSE) /\ UNCHANGED addModalVars

SpecFilter == InitFilter /\ [][NextFilter]_vars

(***************************************************************************)
(* Startup of App: the load effect and the save effect (App.tsx:96-146)   *)
(***************************************************************************)
\* useState<User | null>(null)
NullUser == [id |-> NoUser, name |-> "", contribution_score |-> 0]

\* createDemoUser()
createDemoUser(id) == [id |-> id, name |-> "You", contribution_score |-> 0]

\* localStorage.getItem(key), none standing for the null of an absent key
getItem(storage, key, none) ==
  IF key \in DOMAIN storage THEN storage[key] ELSE none

\* localStorage.setItem(key, value)
setItem(storage, key, value) ==
  [k \in DOMAIN storage \cup {key} |-> IF k = key THEN value ELSE storage[k]]

\* localStorage before any visit
NothingStored == [k \in {} |-> NullUser]

\* what localStorage can hold when the app starts: nothing, the user alone,
\* or what the save effect of an earlier visit wrote
StartupStorages ==
  {NothingStored, setItem(NothingStored, "USER", createDemoUser(1))}
    \cup {Saved(createDemoUser(1), rels, reqs) :
            rels \in ListedRelationships, reqs \in StoredRequests}

\* the state of the first render, its effects still to run
InitStartup ==
  /\ localStorage \in StartupStorages
  /\ currentUser = NullUser
  /\ relationships = <<>>
  /\ requests = <<>>
  /\ loading = TRUE
  /\ effects = "load"
  /\ filters = NoFilters
  /\ uuids = {}
  /\ nextRequestId = 1
  /\ nextRelationshipId = 1
  /\ expandedFriendId = NoUser
  /\ isTransitioningBack = FALSE
  /\ visibleConnectionCount = InitialVisibleCount
  /\ selectedConnection = NoRelationship
  /\ schedules = <<>>
  /\ transitionTimers = 0
  /\ mounted = TRUE
  /\ acceptingRequest = {}
  /\ formRelationshipType = ""
  /\ isAddModalOpen = FALSE
  /\ addModalError = ""
  /\ preExpansion = {}
  /\ DbEmpty

\* the load effect (App.tsx:115-137); the values it sets are those of the
\* next render
loadEffect ==
  /\ effects = "load"
  /\ LET user == getItem(localStorage, "USER", NullUser)
         newUser == createDemoUser(1)
         rels == getItem(localStorage, "RELATIONSHIPS", relationships)
         reqs == getItem(localStorage, "REQUESTS", requests)
     IN /\ IF user.id = NoUser
           THEN /\ localStorage' = setItem(localStorage, "USER", newUser)
                /\ currentUser' = newUser
           ELSE /\ localStorage' = localStorage
                /\ currentUser' = user
        /\ relationships' = rels
        /\ nextRelationshipId' = Len(rels) + 1
        /\ requests' = reqs
        /\ nextRequestId' = Len(reqs) + 1
        /\ uuids' = {1} \cup {rels[i].user_b : i \in 1..Len(rels)}
                       \cup {reqs[i].from_user_id : i \in 1..Len(reqs)}
  /\ loading' = FALSE
  /\ effects' = "save"
  /\ UNCHANGED <<navVars, effectVars, modalVars, addModalVars, preExpansion,
                 filters, dbVars>>

\* the save effect of the first commit (App.tsx:139-146): it closes over the
\* values of the first render
saveEffectOnMount ==
  /\ effects = "save"
  /\ localStorage' = SaveEffectWrites(TRUE, NullUser, <<>>, <<>>, localStorage)
  /\ effects' = "resave"
  /\ UNCHANGED <<appVars, navVars, effectVars, modalVars, addModalVars,
                 preExpansion, filters, loading, dbVars>>

\* the save effect of the commit that follows the load: its dependencies
\* have changed
saveEffectAfterLoad ==
  /\ effects = "resave"
  /\ localStorage' = SaveEffectWrites(loading, currentUser, relationships,
                                      requests, localStorage)
  /\ effects' = "idle"
  /\ UNCHANGED <<appVars, navVars, effectVars, modalVars, addModalVars,
                 preExpansion, filters, loading, dbVars>>

NextStartup ==
  \/ loadEffect
  \/ saveEffectOnMount
  \/ saveEffectAfterLoad
  \/ /\ effects = "idle"
     /\ \E n \in Names :
          handleAddRelationship(n, "(555) 123-4567", "Friend", FALSE)
     /\ UNCHANGED addModalVars

SpecStartup == InitStartup /\ [][NextStartup]_vars

(***************************************************************************)
(* Properties of the local ledger                                          *)
(***************************************************************************)
RequestIdsIn(reqs) == {reqs[i].id : i \in 1..Len(reqs)}
RelationshipIdsIn(rels) == {rels[i].id : i \in 1..Len(rels)}

\* the relationship an acceptance of req creates: it joins the request's
\* sender and the identity that accepted it
Corresponds(rel, req) ==
  IF req.direction = "incoming"
  THEN {rel.user_a, rel.user_b} = {req.from_user_id, req.to_user_id}
  ELSE /\ rel.user_a = req.from_user_id
       /\ rel.user_b # req.from_user_id
       /\ rel.name = req.to_name

\* C1 (as claimed): every request whose status is Accepted has a
\* corresponding Relationship between its sender and its acceptor.
C1_AcceptedHasRelationship ==
  \A i \in 1..Len(requests) :
    requests[i].status = "accepted" =>
      \E j \in 1..Len(relationships) :
        Corresponds(relationships[j], requests[i])

\* C1 (amended): every step that moves a request to Accepted adds a
\* Relationship between the request's sender and the accepting identity, and
\* a Relationship leaves the set only by removeRelationship.
C1_AcceptLinksUntilRemoved ==
  [][/\ \A k \in 1..Len(requests') :
          (/\ requests'[k].status = "accepted"
           /\ \A i \in 1..Len(requests) :
                requests[i].id = requests'[k].id =>
                  requests[i].status # "accepted")
          => \E j \in 1..Len(relationships') :
               /\ relationships'[j].id \notin RelationshipIdsIn(relationships)
               /\ Corresponds(relationships'[j], requests'[k])
     /\ \/ \A j \in 1..Len(relationships) :
             relationships[j] \in Range(relationships')
        \/ \E id \in RelationshipIdsIn(relationships) :
             removeRelationship(id)]_vars

\* C1 witness: an accepted incoming request whose relationship is present
C1_Witness ==
  \E i \in 1..Len(requests) :
    /\ requests[i].status = "accepted"
    /\ requests[i].direction = "incoming"
    /\ \E j \in 1..Len(relationships) :
         Corresponds(relationships[j], requests[i])

\* C2 (as claimed): the relationship set holds at most one Relationship
\* per unordered pair of identities.
C2_OnePerUnorderedPair ==
  \A c1 \in db_connections, c2 \in db_connections :
    {c1.user_a, c1.user_b} = {c2.user_a, c2.user_b} => c1 = c2

\* C3 (as claimed): every stored Relationship has userA < userB.
C3_CanonicalOrder ==
  \A j \in 1..Len(relationships) :
    relationships[j].user_a < relationships[j].user_b

\* C4 (as claimed): a request that is Accepted or Declined never changes
\* its status again.
C4_TerminalImmutable ==
  [][\A i \in 1..Len(requests), k \in 1..Len(requests') :
       (/\ requests[i].id = requests'[k].id
        /\ requests[i].status \in {"accepted", "declined"})
       => requests'[k].status = requests[i].status]_vars

\* a request is Pending and Incoming for the caller of
\* accept_relationship_request
SqlCanAccept(uid, request_id) ==
  \E r \in db_relationship_requests :
    r.id = request_id /\ r.status = "pending" /\ r.from_user_id # uid

\* C5 (as claimed): accept on a request that does not exist, is not Pending
\* or is not Incoming for the caller leaves the requests, the relationships
\* and every score unchanged.
C5_RejectedAcceptChangesNothing ==
  [][\A uid \in DbUsers, id \in DbRequestIds :
       (~SqlCanAccept(uid, id) /\ accept_relationship_request(uid, id))
       => UNCHANGED <<db_relationship_requests, db_relationships,
                      db_users>>]_vars

\* C6 (as claimed): the relationship set gains an element only in a step
\* that also moves a request from Pending to Accepted.
C6_OnlyAcceptCreates ==
  [][(\E rel \in db_relationships' : rel \notin db_relationships)
     => \E r \in db_relationship_requests, q \in db_relationship_requests' :
          r.id = q.id /\ r.status = "pending" /\ q.status = "accepted"]_vars

\* C7: declining a pending incoming request sets its status to Declined,
\* creates no Relationship and keeps the request in the request set.
C7_DeclineKeepsRecord ==
  [][\A id \in RequestIds :
       (CanAcceptIncoming(id) /\ declineRequest(id))
       => /\ \E k \in 1..Len(requests') :
               requests'[k].id = id /\ requests'[k].status = "declined"
          /\ relationships' = relationships
          /\ RequestIdsIn(requests') = RequestIdsIn(requests)
          /\ Len(requests') = Len(requests)]_vars

\* C7 witness: a declined incoming request is in the request set
C7_Witness ==
  \E i \in 1..Len(requests) :
    requests[i].status = "declined" /\ requests[i].direction = "incoming"

\* C8 (as claimed): decline on a request that is not Pending or not
\* Incoming leaves the request set unchanged.
C8_DeclineRejectsOthers ==
  [][\A id \in RequestIds :
       (~CanAcceptIncoming(id) /\ declineRequest(id))
       => requests' = requests]_vars

\* C9 (as claimed): a request leaves the request set only when it is
\* Pending and Outgoing; withdraw on any other request changes nothing.
C9_WithdrawOnlyPendingOutgoing ==
  [][\A id \in RequestIds :
       withdrawRequest(id) =>
         IF CanAcceptOutgoing(id)
         THEN id \notin RequestIdsIn(requests')
         ELSE requests' = requests]_vars

\* the requests some snapshot holds a placeholder node or edge for
PlaceholderIds ==
  UNION {{g.nodes[n].id : n \in {m \in 1..Len(g.nodes) :
                                    g.nodes[m].kind = "pending"}}
         \cup {g.edges[e].id.id : e \in {m \in 1..Len(g.edges) :
                                    \/ g.edges[m].id.kind = "edge"
                                    \/ g.edges[m].to.kind = "pending"}}
         : g \in Snapshots}

\* C10: a withdrawn pending outgoing request is absent from the request set
\* and from every graph snapshot, and no later step brings it back.
C10_WithdrawnStaysAbsent ==
  /\ [][\A id \in RequestIds :
          /\ (/\ nextRequestId' = nextRequestId
              /\ relationships' = relationships
              /\ CanAcceptOutgoing(id)
              /\ withdrawRequest(id))
             => id \notin RequestIdsIn(requests')
          /\ (id < nextRequestId /\ id \notin RequestIdsIn(requests))
             => id \notin RequestIdsIn(requests')]_vars
  /\ [](LET gone == {id \in RequestIds :
                        id < nextRequestId /\ id \notin RequestIdsIn(requests)}
        IN gone = {} \/ gone \cap PlaceholderIds = {})

\* C10 witness: a request was withdrawn and a later request is pending
C10_Witness ==
  /\ \E id \in RequestIds :
       id < nextRequestId /\ id \notin RequestIdsIn(requests)
  /\ PendingOutgoing(requests) # <<>>

\* C11: each request of the viewer's request set has direction Outgoing
\* exactly when its sender is the viewer, and Incoming otherwise.
C11_DirectionMatchesSender ==
  \A i \in 1..Len(requests) :
    /\ requests[i].direction \in {"outgoing", "incoming"}
    /\ requests[i].direction = "outgoing"
         <=> requests[i].from_user_id = currentUser.id

\* C11 witness: the request set holds an outgoing and an incoming request
C11_Witness ==
  /\ \E i \in 1..Len(requests) : requests[i].direction = "outgoing"
  /\ \E i \in 1..Len(requests) : requests[i].direction = "incoming"

\* C12 (as claimed): the Relationship a successful accept creates has the
\* type the accepting viewer chose in the form, and the form of a request
\* just opened, where the viewer has supplied nothing, holds the request's
\* own type.
C12_TypeChosenOrOwn ==
  [][/\ (handleAccept /\ Len(relationships') = Len(relationships) + 1)
        => relationships'[Len(relationships')].relationship_type
             = formRelationshipType
     /\ \A request \in Range(requests) :
          onAcceptClick(request)
          => formRelationshipType' = request.relationship_type]_vars

\* C13: an accept of a pending request by an identity other than its sender
\* adds exactly 1 to the score of the sender and of the accepting identity,
\* and changes no other score.
C13_AcceptIncrementsBoth ==
  [][\A uid \in DbUsers, id \in DbRequestIds :
       (SqlCanAccept(uid, id) /\ accept_relationship_request(uid, id))
       => \A r \in db_relationship_requests :
            r.id = id =>
              \A u \in DbUsers :
                db_users'[u] = db_users[u]
                  + (IF u \in {r.from_user_id, uid} THEN 1 ELSE 0)]_vars

\* C13 witness: a request accepted once, by another identity, both at score 1
C13_Witness ==
  \E r \in db_relationship_requests :
    /\ r.status = "accepted"
    /\ r.to_user_id # r.from_user_id
    /\ db_users[r.from_user_id] = 1
    /\ db_users[r.to_user_id] = 1

\* C15: removeRelationship(relationshipId) takes exactly that relationship
\* out of the list, keeps the others as they are and in order, and leaves
\* the request set unchanged, accepted requests included.
C15_RemoveOnlyThatRelationship ==
  [][\A id \in RequestIds :
       (/\ \/ relationships' # relationships
           \/ requests' # requests
           \/ id \in RelationshipIdsIn(relationships)
        /\ removeRelationship(id))
       => /\ requests' = requests
          /\ id \notin RelationshipIdsIn(relationships')
          /\ \E keep \in SUBSET (1..Len(relationships)) :
               /\ keep = {i \in 1..Len(relationships) :
                            relationships[i].id # id}
               /\ Len(relationships') = Cardinality(keep)
               /\ \A i \in keep :
                    relationships'[Cardinality({j \in keep : j <= i})]
                      = relationships[i]]_vars

\* C15 witness: after a removal, a request is still Accepted and no
\* relationship is left for it
C15_Witness ==
  /\ nextRelationshipId > 1
  /\ \E i \in 1..Len(requests) :
       /\ requests[i].status = "accepted"
       /\ \A j \in 1..Len(relationships) :
            ~Corresponds(relationships[j], requests[i])

(***************************************************************************)
(* Properties of the view                                                  *)
(***************************************************************************)
\* C14: the viewer's score changes only in a step that moves a request from
\* Pending to Accepted, and then by exactly +1; every other handler, timer
\* and view change leaves it as it is, so it never decreases.
C14_ScoreOnlyOnAccept ==
  [][currentUser'.contribution_score # currentUser.contribution_score
     => /\ currentUser'.contribution_score
             = currentUser.contribution_score + 1
        /\ \E i \in 1..Len(requests), k \in 1..Len(requests') :
             /\ requests'[k].id = requests[i].id
             /\ requests[i].status = "pending"
             /\ requests'[k].status = "accepted"]_vars

\* C14 witness: a score raised by an accept, after a profile update, a
\* decline and an expansion
C14_Witness ==
  /\ currentUser.contribution_score >= 1
  /\ currentUser.name = "Sam"
  /\ expandedFriendId # NoUser
  /\ \E i \in 1..Len(requests) : requests[i].status = "declined"

\* C16 (as claimed): a schedule starts with the exposed count at 0, every
\* increment raises it by one without passing totalConnections, and below
\* totalConnections the interval stays in place for the next increment.
C16_RevealCountsUpToTotal ==
  /\ [](\A i \in 1..Len(schedules) :
          schedules[i].phase = "startDelay" => visibleConnectionCount = 0)
  /\ [][\A i \in 1..Len(schedules) :
          intervalTick(i)
          => /\ visibleConnectionCount' = visibleConnectionCount + 1
             /\ visibleConnectionCount' <= schedules[i].totalConnections
             /\ (visibleConnectionCount' < schedules[i].totalConnections
                  => \E j \in 1..Len(schedules') :
                       schedules'[j].phase = "interval")]_vars

\* C17: the exposed count changes only by an increment of a schedule in
\* flight or by the reset of the next start; a cancel (an expansion or the
\* unmount) leaves no timer of the effect behind and does not touch the
\* count, whether or not a schedule was in flight.
C17_CancelFreezesCount ==
  /\ [][/\ (visibleConnectionCount' # visibleConnectionCount
             => \/ \E i \in 1..Len(schedules) : intervalTick(i)
                \/ isTransitioningBack' /\ visibleConnectionCount' = 0)
         /\ (unmount
             => visibleConnectionCount' = visibleConnectionCount)]_vars
  /\ []((expandedFriendId # NoUser \/ ~mounted) => schedules = <<>>)

\* C17 witness: a schedule that had started was cancelled by the unmount
\* before its first increment
C17_Witness ==
  /\ ~mounted
  /\ expandedFriendId = NoUser /\ ~isTransitioningBack
  /\ visibleConnectionCount = 0
  /\ schedules = <<>>

\* C18: at most one reveal schedule exists at any time, and it is the one
\* the latest run of the effect will clean up.
C18_AtMostOneSchedule ==
  /\ Len(schedules) <= 1
  /\ \A i \in 1..Len(schedules) : schedules[i].owned

\* C18 witness: a start issued while a schedule was in flight (a request
\* added during the initial delay) replaced it
C18_Witness ==
  /\ Len(schedules) = 1
  /\ schedules[1].totalConnections > Len(relationships)
  /\ nextRequestId > MaxRequests

\* C19 (as claimed): after the unmount or an expansion no timer started for
\* the reveal is pending: neither the initial delay, nor the interval, nor
\* the 300 ms transition-back timer.
C19_NoDanglingTimers ==
  (~mounted \/ expandedFriendId # NoUser)
  => schedules = <<>> /\ transitionTimers = 0

\* C20: once a peer has been expanded and collapsed with no other change in
\* between and the budget is at least the total connection count, the
\* default-view snapshot is the one shown before the expansion.
C20_ExpandCollapseRestoresSnapshot ==
  (/\ preExpansion # {}
   /\ expandedFriendId = NoUser /\ ~isTransitioningBack
   /\ visibleConnectionCount >= TotalConnections(relationships, requests))
  => graphData \in preExpansion

\* C20 witness: back in the default view after a collapse, with the peer
\* revealed again
C20_Witness ==
  /\ preExpansion # {}
  /\ expandedFriendId = NoUser /\ ~isTransitioningBack
  /\ visibleConnectionCount = 1
  /\ TotalConnections(relationships, requests) = 1
  /\ Len(graphData.nodes) = 2

(***************************************************************************)
(* Properties of the insights and of the projection                        *)
(***************************************************************************)
\* C21: networkDepth is 1 below 2 relationships, 2 for 2 to 4 and 3 from 5
\* on, it does not decrease when the count grows, the next milestone is the
\* threshold of the next tier, and get_network_depth gives the same tier
\* for the same count.
C21_DepthTiers ==
  /\ networkDepth = (CASE Len(relationships) < 2 -> 1
                        [] Len(relationships) \in 2..4 -> 2
                        [] OTHER -> 3)
  /\ \A n \in 0..Len(relationships) :
       /\ NetworkDepthOf(n) <= networkDepth
       /\ NetworkDepthOf(n) = DepthOfCount(n)
       /\ getNextMilestone(n) # 0 =>
            /\ NetworkDepthOf(n) < NetworkDepthOf(getNextMilestone(n))
            /\ NetworkDepthOf(getNextMilestone(n) - 1) = NetworkDepthOf(n)
  /\ get_network_depth(currentUser.id)
       = NetworkDepthOf(Cardinality({r \in db_relationships :
                            currentUser.id \in {r.user_a, r.user_b}}))

\* C21 witness: a viewer in the third tier with exactly 5 relationships
C21_Witness ==
  /\ Len(relationships) = 5
  /\ networkDepth = 3
  /\ Len(requests) = 1

\* the identities the relationship list mentions, the number of
\* relationships touching one, and the place of its first mention
IdsOf(rels) ==
  {rels[i].user_a : i \in 1..Len(rels)} \cup {rels[i].user_b : i \in 1..Len(rels)}
DegreeOf(rels, id) ==
  Cardinality({i \in 1..Len(rels) : rels[i].user_a = id})
  + Cardinality({i \in 1..Len(rels) : rels[i].user_b = id})
FirstMention(rels, id) ==
  LET at == {2 * i - 1 : i \in {k \in 1..Len(rels) : rels[k].user_a = id}}
            \cup {2 * i : i \in {k \in 1..Len(rels) : rels[k].user_b = id}}
  IN CHOOSE n \in at : \A o \in at : n <= o

\* id x ranks before id y: higher degree, or equal degree and mentioned first
RanksBefore(rels, x, y) ==
  \/ DegreeOf(rels, x) > DegreeOf(rels, y)
  \/ /\ DegreeOf(rels, x) = DegreeOf(rels, y)
     /\ FirstMention(rels, x) < FirstMention(rels, y)

C23_ExposureFollowsTier ==
  /\ networkDepth = 1 => exposedInsights = {}
  /\ networkDepth >= 2 =>
       /\ "totalConnections" \in exposedInsights
       /\ (insights.fadingRelationships # <<>>
             => "fadingRelationships" \in exposedInsights)
  /\ networkDepth = 2 => "centralNodes" \notin exposedInsights
  /\ networkDepth = 3 => "centralNodes" \in exposedInsights

\* C24 (as claimed): when the remote write of a new connection request
\* fails, the request is kept locally and the failure reaches the caller of
\* create: the form shows its error and stays open.
C24_FailedCreateSurfaces ==
  [][\A entry \in PhoneEntries :
       (isPhoneComplete(entry) /\ handleSubmitConnection(entry, FALSE))
       => /\ Len(requests') = Len(requests) + 1
          /\ addModalError' # ""
          /\ isAddModalOpen']_vars

\* C25 (as claimed): when the remote write of a profile update fails, the
\* local profile is the one from before the update.
C25_FailedUpdateRollsBack ==
  [][\A updates \in RemoteProfileUpdates :
       handleUpdateUserRemote(updates, FALSE)
       => currentUser' = currentUser]_vars

\* C26 (as claimed): an accept adds its connection and marks its request
\* accepted together or not at all, so no state shows a connection created
\* by an accept whose request is still pending, or an accepted request whose
\* connection is missing.
C26_AcceptAllOrNothing ==
  [][\A uid \in DbUsers, id \in DbRequestIds :
       acceptConnectionRequest(uid, id, uid)
       => ((db_connections' # db_connections)
            <=> (\E r \in db_connection_requests' :
                   /\ r.id = id
                   /\ r.status = "accepted"
                   /\ r \notin db_connection_requests))]_vars

(***************************************************************************)
(* Properties of the relationship form                                     *)
(***************************************************************************)

Budgets == 0..(MaxPeers + MaxRequests) \cup {InitialVisibleCount}

\* the counterpart of the viewer in the i-th relationship
OtherIdAt(i) ==
  IF relationships[i].user_a = currentUser.id THEN relationships[i].user_b
  ELSE relationships[i].user_a

\* the counterparts in relationship-list order, each at its first mention,
\* followed by the pending outgoing requests in request-list order
CounterpartSequence ==
  LET firstMentions ==
        SelectSeq([i \in 1..Len(relationships) |-> i],
                  LAMBDA i : /\ OtherIdAt(i) # currentUser.id
                             /\ \A j \in 1..(i - 1) : OtherIdAt(j) # OtherIdAt(i))
      outgoing ==
        SelectSeq([i \in 1..Len(requests) |-> i],
                  LAMBDA i : /\ requests[i].status = "pending"
                             /\ requests[i].direction = "outgoing")
  IN [k \in 1..Len(firstMentions) |-> UserNode(OtherIdAt(firstMentions[k]))]
     \o [k \in 1..Len(outgoing) |-> PendingNode(requests[outgoing[k]].id)]

\* C28: for every reveal budget b the default-view snapshot holds, after the
\* self node, at most b counterpart nodes, and they are the first b of the
\* sequence of deduplicated relationship counterparts in relationship-list
\* order followed by the pending outgoing requests in request-list order.
C28_BudgetTakesFirstOfSequence ==
  LET sequence == CounterpartSequence
  IN \A b \in Budgets :
       LET snapshot == buildGraphData(NoUser, FALSE, b, <<>>)
           counterparts == Tail(snapshot.nodes)
           taken == IF b < Len(sequence) THEN b ELSE Len(sequence)
       IN /\ Len(counterparts) <= b
          /\ counterparts = SubSeq(sequence, 1, taken)

\* C28 witness: several relationships name one counterpart, a request that
\* is not pending outgoing precedes one that is, and a budget of 2 cuts the
\* sequence short
C28_Witness ==
  /\ Len(relationships) = 5
  /\ Len(requests) = 2
  /\ requests[1].status = "accepted"
  /\ Len(CounterpartSequence) = 3
  /\ Len(buildGraphData(NoUser, FALSE, 2, <<>>).nodes) = 3
  /\ Len(buildGraphData(NoUser, FALSE, InitialVisibleCount, <<>>).nodes) = 4

\* C29: in the default view the snapshot has exactly one self node, it is
\* marked isCurrentUser and is the only node fixed at the origin, and no
\* counterpart identity appears as more than one node, also when several
\* relationships name it.
C29_OneSelfNoDuplicates ==
  \A snapshot \in {buildGraphData(NoUser, FALSE, b, <<>>) : b \in Budgets}
                  \cup {buildGraphData(NoUser, TRUE, InitialVisibleCount, <<>>)} :
    LET nodes == snapshot.nodes
        flags == isCurrentUser(NoUser, nodes)
        shown == processedNodes(nodes, NoUser)
        selfAt == {i \in 1..Len(nodes) : nodes[i] = UserNode(currentUser.id)}
    IN /\ Cardinality(selfAt) = 1
       /\ {i \in 1..Len(nodes) : flags[i]} = selfAt
       /\ {i \in 1..Len(nodes) : shown[i].fixed} = selfAt
       /\ \A i \in 1..Len(nodes), j \in 1..Len(nodes) :
            nodes[i] = nodes[j] => i = j

\* C29 witness: 5 relationships name 2 counterparts, and the snapshot shows
\* the self node, the 2 counterparts and a pending request
C29_Witness ==
  /\ Len(relationships) = 5
  /\ Cardinality({relationships[i].user_b : i \in 1..Len(relationships)}) = 2
  /\ Len(graphData.nodes) = 4
  /\ Len(graphData.edges) = 6
  /\ processedNodes(graphData.nodes, expandedFriendId)[1].fixed

(***************************************************************************)
(* Properties of the expanded view                                         *)
(***************************************************************************)

\* C30 (as claimed): while a peer P is expanded, P is the one node fixed at
\* the origin, the self node is shown unfixed and joined to P by an edge, and
\* the other nodes are the neighbours generateFriendConnections derives from
\* P's id, between 2 and 5 of them.
C30_ExpandedViewCentresPeer ==
  expandedFriendId # NoUser =>
    LET nodes == graphData.nodes
        edges == graphData.edges
        flags == isCurrentUser(expandedFriendId, nodes)
        shown == processedNodes(nodes, expandedFriendId)
        P == UserNode(expandedFriendId)
        self == UserNode(currentUser.id)
        neighbours == generateFriendConnections(expandedFriendId)
    IN /\ Cardinality({i \in 1..Len(nodes) : nodes[i] = P}) = 1
       /\ {i \in 1..Len(nodes) : shown[i].fixed}
            = {i \in 1..Len(nodes) : nodes[i] = P}
       /\ \E i \in 1..Len(nodes) :
            nodes[i] = self /\ flags[i] /\ ~shown[i].fixed
       /\ \E k \in 1..Len(edges) : edges[k].from = P /\ edges[k].to = self
       /\ Len(neighbours) \in 2..5
       /\ Range(nodes) \ {P, self}
            = {FofNode(expandedFriendId, neighbours[i]) :
                 i \in 1..Len(neighbours)}
       /\ Len(nodes) = Len(neighbours) + 2

(***************************************************************************)
(* Properties of the snapshot under the filters                            *)
(***************************************************************************)

\* the snapshots the current lists can be shown as: the default view under
\* the search query at every budget, and the expanded view of every counterpart
SnapshotsShown ==
  {buildGraphData(NoUser, FALSE, b, filters.searchQuery) : b \in Budgets}
  \cup {buildGraphData(relationships[i].user_b, FALSE, InitialVisibleCount, <<>>) :
          i \in 1..Len(relationships)}

\* C31: the node ids of a snapshot are pairwise distinct as strings, and
\* the id of a pending-outgoing placeholder starts with "pending-" and
\* equals the uuid of no identity, handed out already or not.
C31_PlaceholderIdsApart ==
  \A snapshot \in SnapshotsShown :
    LET nodes == snapshot.nodes
    IN /\ \A i \in 1..Len(nodes), j \in 1..Len(nodes) :
            NodeIdText(nodes[i]) = NodeIdText(nodes[j]) => i = j
       /\ \A i \in 1..Len(nodes) :
            nodes[i].kind = "pending" =>
              /\ startsWith(NodeIdText(nodes[i]), <<"p", "e", "n", "d", "i", "n", "g", "-">>)
              /\ \A n \in 0..15 :
                   /\ NodeIdText(nodes[i]) # randomUUID(n)
                   /\ ~startsWith(randomUUID(n), <<"p", "e", "n", "d", "i", "n", "g", "-">>)

\* C31 witness: the placeholder of request 2 is shown next to the node of
\* identity 2, whose uuids are numbered alike
C31_Witness ==
  /\ PendingNode(2) \in Range(graphData.nodes)
  /\ UserNode(2) \in Range(graphData.nodes)
  /\ Len(graphData.nodes) = 4

\* the edge buildGraphData draws for a relationship is in the snapshot
EdgeShown(rel, snapshot) ==
  \E k \in 1..Len(snapshot.edges) :
    snapshot.edges[k].id = [kind |-> "rel", id |-> rel.id]

\* C32 (as claimed): with the show-hidden toggle off a relationship whose
\* hide_reason is set has no edge and its counterpart no node on its account
\* in the default view; with the toggle on, the search box empty and the
\* budget not spent, it has its edge.
C32_ToggleGatesHidden ==
  LET snapshot == buildGraphData(NoUser, FALSE, InitialVisibleCount,
                                 filters.searchQuery)
      hidden == {i \in 1..Len(relationships) : relationships[i].hide_reason}
      open == {i \in 1..Len(relationships) : ~relationships[i].hide_reason}
  IN /\ ~filters.showHidden =>
          /\ \A i \in hidden : ~EdgeShown(relationships[i], snapshot)
          /\ \A i \in hidden :
               UserNode(relationships[i].user_b) \in Range(snapshot.nodes)
                 => \E j \in open :
                      relationships[j].user_b = relationships[i].user_b
     /\ (filters.showHidden /\ filters.searchQuery = <<>>) =>
          \A i \in hidden : EdgeShown(relationships[i], snapshot)

\* the display name contains the query when case is set aside
ContainsIgnoringCase(name, q) ==
  \E k \in 0..(Len(NameChars[name]) - Len(q)) :
    \A j \in 1..Len(q) : LowerChar(NameChars[name][k + j]) = LowerChar(q[j])

\* the counterparts of the relationships whose name contains q, each at its
\* first mention among them, followed by the pending outgoing requests
MatchingSequence(q) ==
  LET matching ==
        SelectSeq([i \in 1..Len(relationships) |-> i],
                  LAMBDA i : ContainsIgnoringCase(relationships[i].name, q))
      firstMentions ==
        SelectSeq([k \in 1..Len(matching) |-> k],
                  LAMBDA k : \A l \in 1..(k - 1) :
                               OtherIdAt(matching[l]) # OtherIdAt(matching[k]))
      outgoing ==
        SelectSeq([i \in 1..Len(requests) |-> i],
                  LAMBDA i : /\ requests[i].status = "pending"
                             /\ requests[i].direction = "outgoing")
  IN [k \in 1..Len(firstMentions) |->
        UserNode(OtherIdAt(matching[firstMentions[k]]))]
     \o [k \in 1..Len(outgoing) |-> PendingNode(requests[outgoing[k]].id)]

\* C33: in the default view a relationship whose counterpart's name does not
\* contain the search query, case set aside, has neither node nor edge and
\* takes nothing of the reveal budget: at every budget b the counterpart
\* nodes are the first b of the sequence built from the matching
\* relationships alone.
C33_SearchGatesBeforeBudget ==
  \A b \in Budgets :
    LET q == filters.searchQuery
        snapshot == buildGraphData(NoUser, FALSE, b, q)
        sequence == MatchingSequence(q)
        taken == IF b < Len(sequence) THEN b ELSE Len(sequence)
    IN /\ Tail(snapshot.nodes) = SubSeq(sequence, 1, taken)
       /\ \A i \in 1..Len(relationships) :
            ~ContainsIgnoringCase(relationships[i].name, q) =>
              /\ ~EdgeShown(relationships[i], snapshot)
              /\ UserNode(OtherIdAt(i)) \notin Range(snapshot.nodes)

\* C33 witness: the viewer has typed "al"; Emma Wilson is listed before Alex
\* Chen and is left out, and a budget of 1 still shows Alex Chen
C33_Witness ==
  /\ filters.searchQuery = <<"a", "l">>
  /\ Len(relationships) = 2
  /\ relationships[1].name = "Emma Wilson"
  /\ relationships[2].name = "Alex Chen"
  /\ Range(graphData.nodes)
       = {UserNode(1), UserNode(relationships[2].user_b)}
  /\ buildGraphData(NoUser, FALSE, 1, filters.searchQuery).nodes
       = <<UserNode(1), UserNode(relationships[2].user_b)>>

\* C37: in every snapshot, at every reveal budget and search input and in
\* the expanded view of every counterpart, both ends of every edge are nodes
\* of the same snapshot.
C37_EdgesJoinShownNodes ==
  \A snapshot \in SnapshotsShown :
    \A k \in 1..Len(snapshot.edges) :
      /\ snapshot.edges[k].from \in Range(snapshot.nodes)
      /\ snapshot.edges[k].to \in Range(snapshot.nodes)

\* C37 witness: two relationships name one counterpart, so the snapshot has
\* more edges than counterpart nodes, and a placeholder edge is drawn
C37_Witness ==
  /\ Len(relationships) = 2
  /\ relationships[1].user_b = relationships[2].user_b
  /\ Len(graphData.edges) = 3
  /\ Len(graphData.nodes) = 3
  /\ \E k \in 1..Len(graphData.edges) : graphData.edges[k].to.kind = "pending"

(***************************************************************************)
(* Properties of accepting a connection request                            *)
(***************************************************************************)

\* C39 (as claimed): when the recipient of a pending request calls
\* acceptConnectionRequest, the connections row the call inserts passes the
\* INSERT policy auth.uid() = user_a, so the insert is refused only when the
\* pair is connected already.
C39_RecipientInsertAuthorized ==
  \A request \in db_connection_requests :
    (request.status = "pending" /\ request.to_user_id \in DbUsers) =>
      LET uid == request.to_user_id
          row == [id |-> db_nextConnectionId,
                  user_a |-> request.from_user_id, user_b |-> uid]
      IN /\ CanInsertConnection(uid, row)
         /\ InsertConnection(uid, request.from_user_id, uid).error
              => ~UniqueConnection(db_connections, row)

(***************************************************************************)
(* Properties of the view after a removal, and of the collapse             *)
(***************************************************************************)

\* C35 (as claimed): in every state of the mounted app, default,
\* transitioning back or expanded, the snapshot handed to NetworkGraph has
\* at least one node and the viewer's node is among them.
C35_SnapshotShowsViewer ==
  mounted =>
    /\ graphData.nodes # <<>>
    /\ UserNode(currentUser.id) \in Range(graphData.nodes)

\* C36 (as claimed): whenever a peer is expanded in the mounted app, some
\* handler the view offers unsets expandedFriendId.
C36_CollapseStaysPossible ==
  (mounted /\ expandedFriendId # NoUser) =>
    ENABLED (NextView /\ expandedFriendId' = NoUser)

\* the snapshot that shows the viewer alone
SelfOnly == [nodes |-> <<UserNode(currentUser.id)>>, edges |-> <<>>]

\* C38: a collapse raises the transition-back flag; every snapshot of the
\* mounted app while the flag is up is the viewer's node alone with no edge;
\* and the exposed count is 0 from the collapse until the flag falls, so
\* that counterparts come back only by counting up from 0.
C38_CollapseShowsSelfThenCountsUp ==
  /\ []((mounted /\ isTransitioningBack) =>
          /\ expandedFriendId = NoUser
          /\ graphData = SelfOnly
          /\ visibleConnectionCount = 0)
  /\ [][(expandedFriendId # NoUser /\ expandedFriendId' = NoUser) =>
          /\ isTransitioningBack'
          /\ visibleConnectionCount' = 0
          /\ graphData' = SelfOnly]_vars
  /\ [][(mounted' /\ isTransitioningBack /\ ~isTransitioningBack') =>
          /\ visibleConnectionCount' = 0
          /\ graphData' = SelfOnly]_vars

\* C38 witness: a collapse is under way, the peer's relationship is still
\* listed, and the snapshot shows the viewer alone
C38_Witness ==
  /\ mounted /\ isTransitioningBack
  /\ transitionTimers > 0
  /\ Len(relationships) >= 1
  /\ preExpansion # {}
  /\ graphData = SelfOnly

(***************************************************************************)
(* Properties of the identifier hash                                       *)
(***************************************************************************)

\* the digit sequence of a raw identifier: its characters with codes 48..57
DigitSequence(phone) ==
  SelectSeq(PhoneChars[phone],
            LAMBDA c : charCodeAt(c) >= 48 /\ charCodeAt(c) <= 57)

\* the hash of the digit sequence of each raw identifier
DigitSequenceHash == [t \in PhoneTexts |-> hashPhone(DigitSequence(t))]

\* C34: the hash stored on a created request depends only on the digit
\* sequence of the raw identifier: a submission that creates a request stores
\* the hash of the digit sequence, and the step is the same step for every
\* raw identifier that has the same digits in another formatting.
C34_HashDependsOnDigitsOnly ==
  [][\A formData \in FormDatas :
       (requests' # requests /\ handleSubmit(formData)) =>
         /\ requests'[Len(requests')].to_phone_hash
              = DigitSequenceHash[formData.to_phone]
         /\ \A other \in PhoneTexts :
              DigitSequence(other) = DigitSequence(formData.to_phone)
                => handleSubmit([formData EXCEPT !.to_phone = other])]_vars

\* two texts of the same digits exist, and a request created from one of
\* them carries the hash both of them give
C34_Witness ==
  \E i \in 1..Len(requests) :
    /\ "to_phone_hash" \in DOMAIN requests[i]
    /\ \E a, b \in PhoneTexts :
         /\ PhoneChars[a] # PhoneChars[b]
         /\ DigitSequence(a) = DigitSequence(b)
         /\ requests[i].to_phone_hash = DigitSequenceHash[a]
         /\ requests[i].to_phone_hash = DigitSequenceHash[b]
    /\ \E j \in 1..Len(requests) :
         /\ "to_phone_hash" \in DOMAIN requests[j]
         /\ requests[j].to_phone_hash # requests[i].to_phone_hash

(***************************************************************************)
(* Properties of the startup                                               *)
(***************************************************************************)

\* C40: while the effects of startup run, no value stored under a key is
\* replaced by another; localStorage changes only when the load effect stores
\* the demo user under an absent key, or when the save effect runs after the
\* load has set loading to false, and what that save writes is what was
\* loaded.
C40_StartupKeepsStored ==
  [][effects # "idle" =>
       /\ \A key \in DOMAIN localStorage :
            /\ key \in DOMAIN localStorage'
            /\ localStorage'[key] = localStorage[key]
       /\ localStorage' # localStorage =>
            \/ /\ effects = "load"
               /\ "USER" \notin DOMAIN localStorage
               /\ DOMAIN localStorage' = DOMAIN localStorage \cup {"USER"}
            \/ /\ effects = "resave"
               /\ ~loading
               /\ localStorage' = Saved(currentUser, relationships, requests)]_vars

\* startup has finished over a storage that held relationships and a
\* request, and the storage still holds them
C40_Witness ==
  /\ effects = "idle"
  /\ nextRequestId = 2
  /\ Len(requests) = 1
  /\ Len(localStorage.RELATIONSHIPS) = 2
  /\ localStorage = Saved(currentUser, relationships, requests)
  /\ localStorage \in StartupStorages

==========================================================================
